---- MODULE Spec2Model ----
(***************************************************************************)
(* State-machine model of the code execution service:                      *)
(*   code-exec/src/service.rs   CodeExecutionService (admission semaphore) *)
(*   code-exec/src/executor.rs  CodeExecutor (the language pipeline)       *)
(*   code-exec/src/sandbox.rs   Sandbox (root directory, child supervisor) *)
(*   code-exec/src/server.rs    the HTTP handler's status mapping          *)
(* A request is a task of the tokio runtime; each action below is the code *)
(* between two suspension points (await) of that task, or a step of the    *)
(* environment (clock, child process, process reaper).                     *)
(* Time is counted in whole seconds, the unit of elapsed.as_secs().        *)
(***************************************************************************)
EXTENDS Integers, Sequences, FiniteSets, TLC

\* ---------------------------------------------------------------- bounds
\* Number of client tasks that call CodeExecutionService::execute.
NumRequests == 2
\* max_concurrent_executions is drawn from 1..MaxPermits.
MaxPermits == 2
\* request.timeout is drawn from 0..MaxTimeout seconds (0: a sub-second timeout).
MaxTimeout == 2
\* Seconds a blocked stdin write may be observed to last.
MaxStdinDelay == 1
\* limits.cpu_time of the service, in seconds.
CpuTimeLimit == 1
\* limits.memory of the service, in KiB (the code compares bytes).
MemoryLimitKb == 1
\* Peak resident set of a child, in KiB as ru_maxrss reports it: 1..MaxRssKb.
MaxRssKb == 2
\* Bytes the kernel buffers in the stdin pipe before write_all blocks.
PipeCapacity == 1
\* request.input is None or a payload of 0..MaxInputLen bytes.
MaxInputLen == 2

Requests == 1..NumRequests
NoInput == -1
Languages == {"python", "javascript", "typescript", "rust", "go"}

Max(a, b) == IF a >= b THEN a ELSE b

\* ------------------------------------------------------- language tags
\* A tag is the payload's language string, kept as its sequence of characters.
Lower == [c \in {"A", "C", "E", "G", "H", "I", "J", "N", "O", "P", "R", "S", "T", "U", "V", "Y"} |->
             CASE c = "A" -> "a" [] c = "C" -> "c" [] c = "E" -> "e" [] c = "G" -> "g"
               [] c = "H" -> "h" [] c = "I" -> "i" [] c = "J" -> "j" [] c = "N" -> "n"
               [] c = "O" -> "o" [] c = "P" -> "p" [] c = "R" -> "r" [] c = "S" -> "s"
               [] c = "T" -> "t" [] c = "U" -> "u" [] c = "V" -> "v" [] c = "Y" -> "y"]

\* char::to_ascii_lowercase.
to_ascii_lowercase(c) == IF c \in DOMAIN Lower THEN Lower[c] ELSE c

\* str::to_lowercase on a tag.
to_lowercase(tag) == [i \in DOMAIN tag |-> to_ascii_lowercase(tag[i])]

\* The strings of the match arms of Language::from_str.
TagOf(language) ==
    CASE language = "python" -> <<"p", "y", "t", "h", "o", "n">>
      [] language = "javascript" -> <<"j", "a", "v", "a", "s", "c", "r", "i", "p", "t">>
      [] language = "typescript" -> <<"t", "y", "p", "e", "s", "c", "r", "i", "p", "t">>
      [] language = "rust" -> <<"r", "u", "s", "t">>
      [] language = "go" -> <<"g", "o">>

\* Err(format!("Unsupported language: {}", s)) of Language::from_str.
ParseError == "Err"

\* impl FromStr for Language: the tag is matched against the five strings as is.
from_str(tag) ==
    IF \E language \in Languages : TagOf(language) = tag
    THEN CHOOSE language \in Languages : TagOf(language) = tag
    ELSE ParseError

\* ------------------------------------------------------- the environment
\* Names of environment variables: the two Sandbox::execute sets, one a caller
\* may pass, one only the host has.
EnvNames == {"PATH", "HOME", "FOO", "LANG"}
Unset == "unset"

\* The environment of the service process, which a Command inherits by default.
HostEnv == [k \in EnvNames |-> IF k = "FOO" THEN Unset ELSE "host"]

\* request.env_vars: each of PATH, HOME, FOO absent or given by the caller.
EnvVars == [EnvNames -> {Unset, "caller"}] \ {e \in [EnvNames -> {Unset, "caller"}] : e["LANG"] # Unset}
NoEnvVars == [k \in EnvNames |-> Unset]

\* Command::env_clear, Command::envs and Command::env.
env_clear(e) == [k \in EnvNames |-> Unset]
envs(e, given) == [k \in EnvNames |-> IF given[k] # Unset THEN given[k] ELSE e[k]]
env(e, name, val) == [e EXCEPT ![name] = val]

\* A Command built without env_clear: the child inherits the service's environment.
CommandEnv_NoClear(env_vars, root) ==
    env(env(envs(HostEnv, env_vars), "PATH", "/usr/bin:/bin:/usr/sbin:/sbin"),
        "HOME", <<root, "home">>)

\* sandbox.rs 117-123: the environment of the Command built for the child.
CommandEnv(env_vars, root) ==
    env(env(envs(env_clear(HostEnv), env_vars),
            "PATH", "/usr/bin:/bin:/usr/sbin:/sbin"),
        "HOME", <<root, "home">>)

\* sandbox.rs 137-168 (Linux): the limits pre_exec installs before exec.
pre_exec == {"RLIMIT_FSIZE", "RLIMIT_CPU"}

\* ------------------------------------------------------------ the request
\* ExecutionRequest: the fields the service, the pipeline and the supervisor read.
\* dependencies is kept as its length, input as None or the payload's length.
ExecutionRequest ==
    [language : Languages,
     dependencies : 0..1,
     input : {NoInput} \cup (0..MaxInputLen),
     timeout : 0..MaxTimeout,
     env_vars : {NoEnvVars}]

\* The requests the clients of the concurrent service submit.
ServiceWorkload ==
    { [language |-> "python", dependencies |-> 1, input |-> MaxInputLen, timeout |-> 1,
       env_vars |-> NoEnvVars] }

\* ExecuteRequest, the payload of POST /execute: a language string and the rest.
ExecuteRequest(tag, request) ==
    [tag |-> tag, language |-> request.language, dependencies |-> request.dependencies,
     input |-> request.input, timeout |-> request.timeout, env_vars |-> request.env_vars]

\* Every upper/lower-case spelling of a tag.
RECURSIVE CaseVariants(_)
CaseVariants(tag) ==
    IF tag = <<>> THEN {<<>>}
    ELSE LET c == tag[1]
             heads == {c} \cup {u \in DOMAIN Lower : Lower[u] = c}
         IN {<<h>> \o t : h \in heads, t \in CaseVariants(Tail(tag))}

\* Strings that spell no supported language in any case.
UnknownTags == {<<>>, <<"r", "u", "b", "y">>, <<"g", "o", "o">>}

\* The payloads sent to the server: one request under every spelling of its tag
\* and under unknown tags, and under every env_vars.
ServerWorkload ==
    LET base == CHOOSE request \in ServiceWorkload : TRUE
    IN {ExecuteRequest(tag, base) :
            tag \in UnknownTags
                    \cup UNION {CaseVariants(TagOf(language)) : language \in Languages}}
       \cup {ExecuteRequest(TagOf(base.language), [base EXCEPT !.env_vars = e]) : e \in EnvVars}

\* ResourceLimits bound to the service; memory is in bytes.
limits == [cpu_time |-> CpuTimeLimit, memory |-> MemoryLimitKb * 1024]

\* ----------------------------------------------------------------- state
VARIABLES
    workload,        \* which requests clients submit: "service", "request" or "server"
    max_concurrent,  \* max_concurrent_executions given to CodeExecutionService::new
    permits,         \* Semaphore: available permits
    waiters,         \* Semaphore: tasks queued in acquire(), in arrival order
    pc,              \* per task: the suspension point it is at
    req,             \* per task: the payload it sent and the ExecutionRequest built from it
    sandbox,         \* per task: the root id of the Sandbox handle it owns, 0 if none
    roots,           \* the /tmp/sandbox-<uuid> directories that exist
    next_uuid,       \* source of fresh Uuid::new_v4 values
    child,           \* per task: the process spawned by Sandbox::execute
    elapsed,         \* per task: seconds since Sandbox.start_time
    waited,          \* per task: seconds since time::timeout began
    rusage_children, \* getrusage(RUSAGE_CHILDREN).max_rss of the service process, KiB
    toolchain_rss,   \* peak KiB of the host's toolchain commands (fixed by Init)
    result,          \* per task: what CodeExecutionService::execute returned
    log,             \* per task: the steps it took, in order
    project,         \* a sandbox directory a language executor scaffolds, and the outcome
    source,          \* the source text handed to the dependency analyzers
    analysis,        \* the latest analyzer call and what it returned
    progress         \* InstallationManager: its progress record and the call under way

\* The requests a client may pass to execute in this run.
Submitted ==
    CASE workload = "service" ->
            {ExecuteRequest(TagOf(request.language), request) : request \in ServiceWorkload}
      [] workload = "request" ->
            {ExecuteRequest(TagOf(request.language), request) : request \in ExecutionRequest}
      [] workload = "server" -> ServerWorkload

\* What Init fixes for the whole run.
\* The state of the library calls (executor scaffold, analyzers, installation
\* manager), which no step of the execution service touches.
library == <<project, source, analysis, progress>>

config == <<workload, max_concurrent, toolchain_rss, library>>

vars == <<workload, max_concurrent, permits, waiters, pc, req, sandbox, roots,
          next_uuid, child, elapsed, waited, rusage_children, toolchain_rss, result, log,
          project, source, analysis, progress>>

NoRequest ==
    [tag |-> <<>>, language |-> "-", dependencies |-> 0, input |-> NoInput, timeout |-> 0,
     env_vars |-> NoEnvVars]
NoChild ==
    [state |-> "none", exit |-> "-", rss |-> 0, env |-> NoEnvVars, rlimits |-> {},
     stdin |-> "-", written |-> 0]
NoResult == [tag |-> "none", kind |-> "-", msg |-> "-"]

\* Ok(ExecutionResult { status, .. }) and Err(Error::kind(msg)).
Ok(status) == [tag |-> "Ok", kind |-> status, msg |-> "-"]
Err(kind, msg) == [tag |-> "Err", kind |-> kind, msg |-> msg]

\* Root id of the sandbox CodeExecutor::new creates for the executor itself.
ExecutorRoot == 1

\* No library call is under way.
NoProject ==
    [language |-> "-", files |-> {}, status |-> "-", runs |-> 0, dependencies |-> 0,
     program |-> "-"]
NoSource == <<>>
NoAnalysis == [call |-> "-", status |-> "-", tag |-> "-", packages |-> {}]
NoProgress == [status |-> "-"]

InitService ==
    /\ max_concurrent \in 1..MaxPermits
    /\ permits = max_concurrent
    /\ waiters = <<>>
    /\ req = [r \in Requests |-> NoRequest]
    /\ sandbox = [r \in Requests |-> 0]
    /\ roots = {ExecutorRoot}
    /\ next_uuid = ExecutorRoot + 1
    /\ child = [r \in Requests |-> NoChild]
    /\ elapsed = [r \in Requests |-> 0]
    /\ waited = [r \in Requests |-> 0]
    /\ rusage_children = 0
    /\ toolchain_rss \in 1..MaxRssKb
    /\ result = [r \in Requests |-> NoResult]
    /\ log = [r \in Requests |-> <<>>]
    /\ project = NoProject
    /\ source = NoSource
    /\ analysis = NoAnalysis
    /\ progress = NoProgress

\* The service under NumRequests concurrent clients.
Init ==
    /\ InitService
    /\ workload = "service"
    /\ pc = [r \in Requests |-> "idle"]

\* A single request with every input, served alone.
InitRequest ==
    /\ InitService
    /\ workload = "request"
    /\ pc = [r \in Requests |-> IF r = 1 THEN "idle" ELSE "off"]

\* A single payload to the server, with every spelling of the language and every
\* env_vars.
InitServer ==
    /\ InitService
    /\ workload = "server"
    /\ pc = [r \in Requests |-> IF r = 1 THEN "idle" ELSE "off"]

\* ------------------------------------------------- per-language contracts
\* LanguageExecutor::run_command.
run_command(language) ==
    CASE language = "python" -> "python3"
      [] language = "javascript" -> "node"
      [] language = "typescript" -> "node"
      [] language = "rust" -> "./target/release/code-execution"
      [] language = "go" -> "./code-execution"

\* Whether a stage of the language's executor runs an external command (a child
\* of the service process that the stage waits for with status().await).
RunsCommand(language, stage) ==
    CASE stage = "setup_environment" -> language \in {"python", "rust", "go"}
      [] stage = "install_dependencies" ->
            language \in {"python", "javascript", "typescript", "go"}
      [] stage = "compile" -> language \in {"python", "typescript", "rust", "go"}
      [] OTHER -> FALSE

\* The error kinds a stage of the language's executor can return.
StageErrors(language, stage) ==
    CASE stage = "compile" ->
            IF language = "javascript" THEN {} ELSE {"System", "CompilationError"}
      [] OTHER -> {"System"}

\* --------------------------------------------------------------- helpers
Logged(r, step) == Append(log[r], step)

\* What a finished child adds to the process-wide RUSAGE_CHILDREN maximum.
Reaped(maxrss, rss) == Max(maxrss, rss)

\* impl Drop for Sandbox: remove_dir_all(root_dir); a failure is only logged.
DropSandbox(dirs, root, removed) ==
    IF root # 0 /\ removed THEN dirs \ {root} ELSE dirs

\* A service that returns the permit only at the end of a successful call.
DropPermit_OnlyOnOk(p, res) == IF res.tag = "Ok" THEN p + 1 ELSE p

\* Dropping the SemaphorePermit at the end of CodeExecutionService::execute.
DropPermit(p, res) == p + 1

\* service.rs 50: execute_in_sandbox(request, sandbox) takes the Sandbox by value.
\* The pipeline of CodeExecutor::execute runs against that sandbox, and the value
\* is dropped before the call returns.
MovedSandbox(r) == sandbox[r]

\* The return of CodeExecutionService::execute with `res`: the sandbox moved into
\* execute_in_sandbox is dropped, then _permit is dropped; the locals of the call
\* (start_time, the timer) are gone.
Return(r, res, steps) ==
    /\ result' = [result EXCEPT ![r] = res]
    /\ pc' = [pc EXCEPT ![r] = "done"]
    /\ permits' = DropPermit(permits, res)
    /\ \E removed \in BOOLEAN :
          /\ MovedSandbox(r) = 0 => removed
          /\ roots' = DropSandbox(roots, MovedSandbox(r), removed)
          /\ log' = [log EXCEPT ![r] =
                        steps \o (IF removed THEN <<>> ELSE <<"cleanup_failed">>)
                              \o <<"return">>]
    /\ elapsed' = [elapsed EXCEPT ![r] = 0]
    /\ waited' = [waited EXCEPT ![r] = 0]
    /\ UNCHANGED <<config, waiters, req, sandbox, next_uuid>>

\* A pipeline stage returned Ok: the task moves on to `next`.
Continue(r, next, steps) ==
    /\ pc' = [pc EXCEPT ![r] = next]
    /\ log' = [log EXCEPT ![r] = steps]
    /\ UNCHANGED <<config, permits, waiters, req, sandbox, roots,
                   next_uuid, result, elapsed, waited>>

\* An external command the pipeline ran and waited for: its peak RSS enters
\* RUSAGE_CHILDREN of the service process.
CommandRan(r, ran) ==
    rusage_children' = IF ran THEN Reaped(rusage_children, toolchain_rss)
                       ELSE rusage_children

\* ---------------------------------------------- CodeExecutionService::execute
\* server.rs 53-61: the response to a payload whose language does not parse.
Rejected == [tag |-> "Rejected", kind |-> "-", msg |-> "Invalid language"]

\* server.rs 50-72 and service.rs 33-39: the handler parses the payload's language;
\* on failure it responds at once, otherwise it builds the ExecutionRequest and
\* calls execute(request), and the task queues on the semaphore.
Start(r) ==
    /\ pc[r] = "idle"
    /\ \E payload \in Submitted :
          /\ req' = [req EXCEPT ![r] = [payload EXCEPT !.language = from_str(payload.tag)]]
          /\ IF from_str(payload.tag) = ParseError
             THEN /\ result' = [result EXCEPT ![r] = Rejected]
                  /\ pc' = [pc EXCEPT ![r] = "done"]
                  /\ waiters' = waiters
             ELSE /\ result' = result
                  /\ pc' = [pc EXCEPT ![r] = "acquire"]
                  /\ waiters' = Append(waiters, r)
    /\ UNCHANGED <<config, permits, sandbox, roots, next_uuid, child,
                   elapsed, waited, rusage_children, log>>

\* An acquire that completes without a permit being available.
Acquire_WithoutPermit(r) ==
    /\ pc[r] = "acquire"
    /\ waiters # <<>> /\ Head(waiters) = r
    /\ permits' = permits - 1
    /\ waiters' = Tail(waiters)
    /\ pc' = [pc EXCEPT ![r] = "Sandbox_new"]
    /\ UNCHANGED <<config, req, sandbox, roots, next_uuid, child,
                   elapsed, waited, rusage_children, result, log>>

\* A semaphore that hands a free permit to any queued task, not the oldest.
Acquire_AnyWaiter(r) ==
    /\ pc[r] = "acquire"
    /\ permits > 0
    /\ permits' = permits - 1
    /\ waiters' = SelectSeq(waiters, LAMBDA w : w # r)
    /\ pc' = [pc EXCEPT ![r] = "Sandbox_new"]
    /\ UNCHANGED <<config, req, sandbox, roots, next_uuid, child,
                   elapsed, waited, rusage_children, result, log>>

\* semaphore.acquire().await completes: permits are handed out in queue order.
Acquire(r) ==
    /\ pc[r] = "acquire"
    /\ permits > 0
    /\ waiters # <<>> /\ Head(waiters) = r
    /\ permits' = permits - 1
    /\ waiters' = Tail(waiters)
    /\ pc' = [pc EXCEPT ![r] = "Sandbox_new"]
    /\ UNCHANGED <<config, req, sandbox, roots, next_uuid, child,
                   elapsed, waited, rusage_children, result, log>>

\* Every request handed the executor's own Sandbox instead of a new handle.
Sandbox_new_ExecutorRoot(r) ==
    /\ pc[r] = "Sandbox_new"
    /\ next_uuid' = next_uuid + 1
    /\ \E created \in {"none", "root", "all"} :
          IF created = "all"
          THEN /\ roots' = roots \cup {ExecutorRoot}
               /\ sandbox' = [sandbox EXCEPT ![r] = ExecutorRoot]
               /\ pc' = [pc EXCEPT ![r] = "check_tools"]
               /\ log' = [log EXCEPT ![r] = Logged(r, "Sandbox_new")]
               /\ UNCHANGED <<permits, result>>
          ELSE /\ roots' = IF created = "root" THEN roots \cup {ExecutorRoot} ELSE roots
               /\ sandbox' = sandbox
               /\ result' = [result EXCEPT ![r] =
                                Err("Sandbox", "Failed to create directory")]
               /\ pc' = [pc EXCEPT ![r] = "done"]
               /\ permits' = DropPermit(permits, Err("Sandbox", "Failed to create directory"))
               /\ log' = [log EXCEPT ![r] = Logged(r, "return")]
    /\ UNCHANGED <<config, waiters, req, child, elapsed, waited,
                   rusage_children>>

\* A Sandbox::new whose uuid source repeats itself.
Sandbox_new_SameUuid(r) ==
    /\ pc[r] = "Sandbox_new"
    /\ next_uuid' = next_uuid
    /\ \E created \in {"none", "root", "all"} :
          IF created = "all"
          THEN /\ roots' = roots \cup {next_uuid}
               /\ sandbox' = [sandbox EXCEPT ![r] = next_uuid]
               /\ pc' = [pc EXCEPT ![r] = "check_tools"]
               /\ log' = [log EXCEPT ![r] = Logged(r, "Sandbox_new")]
               /\ UNCHANGED <<permits, result>>
          ELSE /\ roots' = IF created = "root" THEN roots \cup {next_uuid} ELSE roots
               /\ sandbox' = sandbox
               /\ result' = [result EXCEPT ![r] =
                                Err("Sandbox", "Failed to create directory")]
               /\ pc' = [pc EXCEPT ![r] = "done"]
               /\ permits' = DropPermit(permits, Err("Sandbox", "Failed to create directory"))
               /\ log' = [log EXCEPT ![r] = Logged(r, "return")]
    /\ UNCHANGED <<config, waiters, req, child, elapsed, waited,
                   rusage_children>>

\* Sandbox::new: create /tmp/sandbox-<uuid>, then bin, lib, usr, tmp, home.
\* created = "none": the root could not be created; "root": the root was created
\* and a subdirectory failed; "all": Ok(sandbox).
Sandbox_new(r) ==
    /\ pc[r] = "Sandbox_new"
    /\ next_uuid' = next_uuid + 1
    /\ \E created \in {"none", "root", "all"} :
          IF created = "all"
          THEN /\ roots' = roots \cup {next_uuid}
               /\ sandbox' = [sandbox EXCEPT ![r] = next_uuid]
               /\ pc' = [pc EXCEPT ![r] = "check_tools"]
               /\ log' = [log EXCEPT ![r] = Logged(r, "Sandbox_new")]
               /\ UNCHANGED <<permits, result>>
          ELSE /\ roots' = IF created = "root" THEN roots \cup {next_uuid} ELSE roots
               /\ sandbox' = sandbox
               /\ result' = [result EXCEPT ![r] =
                                Err("Sandbox", "Failed to create directory")]
               /\ pc' = [pc EXCEPT ![r] = "done"]
               /\ permits' = DropPermit(permits, Err("Sandbox", "Failed to create directory"))
               /\ log' = [log EXCEPT ![r] = Logged(r, "return")]
    /\ UNCHANGED <<config, waiters, req, child, elapsed, waited,
                   rusage_children>>

\* ------------------------------------------------- the language pipeline
\* The log of the tool check: install_missing_tools runs when a tool is missing.
ToolCheck(r, present) ==
    log[r] \o (IF present THEN <<"check_tools">>
                         ELSE <<"check_tools", "install_missing_tools">>)

\* executor.rs 68-73: create_executor, then check_tools and, when a tool is
\* missing, install_missing_tools (whose error is the step's error).
check_tools(r) ==
    /\ pc[r] = "check_tools"
    /\ \E present \in BOOLEAN, installed \in BOOLEAN :
          /\ CommandRan(r, ~present)
          /\ IF present \/ installed
             THEN Continue(r, "write_source_file", ToolCheck(r, present))
             ELSE Return(r, Err("System", "check_tools"), ToolCheck(r, present))
    /\ UNCHANGED child

\* executor.rs 75-77: fs::write(<root>/tmp/source.<ext>), an Io error on failure.
write_source_file(r) ==
    /\ pc[r] = "write_source_file"
    /\ \E written \in BOOLEAN :
          IF written
          THEN Continue(r, "ensure_directories", Logged(r, "write_source_file"))
          ELSE Return(r, Err("Io", "write_source_file"), Logged(r, "write_source_file"))
    /\ UNCHANGED <<child, rusage_children>>

\* A pipeline that goes from ensure_directories straight to compile.
ensure_directories_SkipsSetup(r) ==
    /\ pc[r] = "ensure_directories"
    /\ Continue(r, "compile", Logged(r, "ensure_directories"))
    /\ UNCHANGED <<child, rusage_children>>

\* executor.rs 81: executor.ensure_directories(&sandbox_dir).
ensure_directories(r) ==
    /\ pc[r] = "ensure_directories"
    /\ \E e \in {"Ok"} \cup StageErrors(req[r].language, "ensure_directories") :
          IF e = "Ok"
          THEN Continue(r, "setup_environment", Logged(r, "ensure_directories"))
          ELSE Return(r, Err(e, "ensure_directories"), Logged(r, "ensure_directories"))
    /\ UNCHANGED <<child, rusage_children>>

\* executor.rs 82: executor.setup_environment(&sandbox_dir).
setup_environment(r) ==
    /\ pc[r] = "setup_environment"
    /\ CommandRan(r, RunsCommand(req[r].language, "setup_environment"))
    /\ \E e \in {"Ok"} \cup StageErrors(req[r].language, "setup_environment") :
          IF e = "Ok"
          THEN Continue(r, "install_dependencies", Logged(r, "setup_environment"))
          ELSE Return(r, Err(e, "setup_environment"), Logged(r, "setup_environment"))
    /\ UNCHANGED child

\* The install stage called whatever the dependency list holds.
install_dependencies_Always(r) ==
    /\ pc[r] = "install_dependencies"
    /\ CommandRan(r, RunsCommand(req[r].language, "install_dependencies"))
    /\ \E e \in {"Ok"} \cup StageErrors(req[r].language, "install_dependencies") :
          IF e = "Ok"
          THEN Continue(r, "compile", Logged(r, "install_dependencies"))
          ELSE Return(r, Err(e, "install_dependencies"),
                      Logged(r, "install_dependencies"))
    /\ UNCHANGED child

\* executor.rs 85-89: install_dependencies is called only for a non-empty list.
install_dependencies(r) ==
    /\ pc[r] = "install_dependencies"
    /\ IF req[r].dependencies = 0
       THEN /\ Continue(r, "compile", log[r])
            /\ UNCHANGED rusage_children
       ELSE /\ CommandRan(r, RunsCommand(req[r].language, "install_dependencies"))
            /\ \E e \in {"Ok"} \cup StageErrors(req[r].language, "install_dependencies") :
                  IF e = "Ok"
                  THEN Continue(r, "compile", Logged(r, "install_dependencies"))
                  ELSE Return(r, Err(e, "install_dependencies"),
                              Logged(r, "install_dependencies"))
    /\ UNCHANGED child

\* executor.rs 92: executor.compile(&sandbox_dir, &source_file).
compile(r) ==
    /\ pc[r] = "compile"
    /\ CommandRan(r, RunsCommand(req[r].language, "compile"))
    /\ \E e \in {"Ok"} \cup StageErrors(req[r].language, "compile") :
          IF e = "Ok"
          THEN Continue(r, "spawn", Logged(r, "compile"))
          ELSE Return(r, Err(e, "compile"), Logged(r, "compile"))
    /\ UNCHANGED child

\* ------------------------------------------------------- Sandbox::execute
\* sandbox.rs 109: cmd.starts_with("./").
StartsWithDotSlash(cmd) ==
    cmd \in {"./target/release/code-execution", "./code-execution"}

\* How the child's own run can end: an exit code, or death by a signal.
ExitStatuses == {"code0", "code1", "sig9", "sig15", "sig11"}

\* A process that has terminated and has not been waited for.
Zombie(c, exit) == [c EXCEPT !.state = "zombie", !.exit = exit]

\* sandbox.rs 127-131: the child's stdin is a pipe if input.is_some(), else the
\* null device.
Stdio(input) == IF input = NoInput THEN "null" ELSE "piped"

\* sandbox.rs 101-172: start_time is set (elapsed counts from 0), the command is
\* resolved ("./" relative to the root, otherwise which), built and spawned.
spawn(r) ==
    /\ pc[r] = "spawn"
    /\ \E outcome \in {"spawned", "not_found", "spawn_failed"} :
          /\ outcome = "not_found" => ~StartsWithDotSlash(run_command(req[r].language))
          /\ CASE outcome = "spawned" ->
                    /\ child' = [child EXCEPT ![r] =
                                    [state |-> "running", exit |-> "-", rss |-> 0,
                                     env |-> CommandEnv(req[r].env_vars, MovedSandbox(r)),
                                     rlimits |-> pre_exec,
                                     stdin |-> Stdio(req[r].input), written |-> 0]]
                    /\ Continue(r, IF req[r].input = NoInput THEN "wait" ELSE "write_input",
                                log[r] \o <<"execute", "spawn">>)
               [] outcome = "not_found" ->
                    /\ child' = child
                    /\ Return(r, Err("Sandbox", "Command not found"), Logged(r, "execute"))
               [] outcome = "spawn_failed" ->
                    /\ child' = child
                    /\ Return(r, Err("Sandbox", "Failed to spawn process"), Logged(r, "execute"))
    /\ UNCHANGED rusage_children

\* A write_input that writes the payload and keeps the pipe open.
write_input_KeepsOpen(r) ==
    /\ pc[r] = "write_input"
    /\ \E outcome \in {"written", "child_reads", "broken_pipe"} :
          /\ outcome = "written" => req[r].input <= PipeCapacity
          /\ IF outcome = "broken_pipe"
             THEN /\ Return(r, Err("Sandbox", "Failed to write input"),
                            Logged(r, "write_input"))
                  /\ child' = child
             ELSE /\ Continue(r, "wait", Logged(r, "write_input"))
                  /\ child' = [child EXCEPT ![r] = [@ EXCEPT !.written = req[r].input]]
    /\ UNCHANGED rusage_children

\* sandbox.rs 175-184: write_all(input).await, then drop(stdin). The write
\* completes when the payload fits the pipe or the child reads it, and fails when
\* the child has closed its end.
write_input(r) ==
    /\ pc[r] = "write_input"
    /\ \E outcome \in {"written", "child_reads", "broken_pipe"} :
          /\ outcome = "written" => req[r].input <= PipeCapacity
          /\ IF outcome = "broken_pipe"
             THEN /\ Return(r, Err("Sandbox", "Failed to write input"),
                            Logged(r, "write_input"))
                  /\ child' = child
             ELSE /\ Continue(r, "wait", log[r] \o <<"write_input", "close_stdin">>)
                  /\ child' = [child EXCEPT ![r] =
                                  [@ EXCEPT !.stdin = "closed", !.written = req[r].input]]
    /\ UNCHANGED rusage_children

\* A second passes while write_all is pending: the payload exceeds the pipe and
\* the child has not read it. No timer runs yet.
stdin_blocked(r) ==
    /\ pc[r] = "write_input"
    /\ req[r].input > PipeCapacity
    /\ elapsed[r] < MaxStdinDelay
    /\ elapsed' = [elapsed EXCEPT ![r] = @ + 1]
    /\ UNCHANGED <<config, permits, waiters, pc, req, sandbox, roots,
                   next_uuid, child, waited, rusage_children, result, log>>

\* A second passes inside time::timeout(timeout, child.wait_with_output()).
tick(r) ==
    /\ pc[r] = "wait"
    /\ waited[r] < req[r].timeout
    /\ elapsed' = [elapsed EXCEPT ![r] = @ + 1]
    /\ waited' = [waited EXCEPT ![r] = @ + 1]
    /\ UNCHANGED <<config, permits, waiters, pc, req, sandbox, roots,
                   next_uuid, child, rusage_children, result, log>>

\* sandbox.rs 188-189: the child terminates before the timer fires and
\* wait_with_output reaps it: Ok(Ok(output)).
wait_with_output(r) ==
    /\ pc[r] = "wait"
    /\ \E exit \in ExitStatuses, rss \in 1..MaxRssKb :
          /\ child' = [child EXCEPT ![r] =
                          [@ EXCEPT !.state = "reaped", !.exit = exit, !.rss = rss]]
          /\ rusage_children' = Reaped(rusage_children, rss)
    /\ Continue(r, "check_resource_usage", Logged(r, "wait_with_output"))

\* sandbox.rs 190: Ok(Err(e)), an IO error of wait_with_output.
wait_error(r) ==
    /\ pc[r] = "wait"
    /\ Return(r, Err("Sandbox", "Process error"), Logged(r, "wait_with_output"))
    /\ UNCHANGED <<child, rusage_children>>

\* sandbox.rs 191: the timer fires first; the wait future is dropped and with it
\* the Child handle (the process itself is left to the runtime's orphan reaper).
timeout_fires(r) ==
    /\ pc[r] = "wait"
    /\ waited[r] = req[r].timeout
    /\ Continue(r, "kill_term", Logged(r, "timeout"))
    /\ UNCHANGED <<child, rusage_children>>

\* What a signal sent with the kill command does to the child: nothing when the
\* command could not be run (its result is discarded) or the child is gone;
\* SIGTERM may be handled or ignored by the child, SIGKILL cannot.
Signalled(c, sig, delivered, dies) ==
    IF c.state = "running" /\ delivered /\ (dies \/ sig = "sig9")
    THEN Zombie(c, sig)
    ELSE c

\* sandbox.rs 194: kill <pid>, awaited, result discarded.
kill_term(r) ==
    /\ pc[r] = "kill_term"
    /\ \E delivered \in BOOLEAN, dies \in BOOLEAN :
          child' = [child EXCEPT ![r] = Signalled(@, "sig15", delivered, dies)]
    /\ Continue(r, "grace_sleep", Logged(r, "kill_term"))
    /\ UNCHANGED rusage_children

\* sandbox.rs 197: sleep(10 ms).
grace_sleep(r) ==
    /\ pc[r] = "grace_sleep"
    /\ Continue(r, "kill_9", Logged(r, "grace_sleep"))
    /\ UNCHANGED <<child, rusage_children>>

\* sandbox.rs 200-206: kill -9 <pid>, awaited, result discarded; then
\* Err(Error::Timeout) propagates out of execute.
kill_9(r) ==
    /\ pc[r] = "kill_9"
    /\ \E delivered \in BOOLEAN :
          child' = [child EXCEPT ![r] = Signalled(@, "sig9", delivered, TRUE)]
    /\ Return(r, Err("Timeout", "timeout branch"), Logged(r, "kill_9"))
    /\ UNCHANGED rusage_children

\* Whether the task has let go of its Child handle while the process may live on.
Orphaned(r) == pc[r] \in {"kill_term", "grace_sleep", "kill_9", "done", "cancelled"}

\* An orphaned child terminates on its own account (nobody reads its status).
orphan_exit(r) ==
    /\ Orphaned(r)
    /\ child[r].state = "running"
    /\ child' = [child EXCEPT ![r] = Zombie(@, "exited")]
    /\ UNCHANGED <<config, permits, waiters, pc, req, sandbox, roots,
                   next_uuid, elapsed, waited, rusage_children, result, log>>

\* The runtime reaps a terminated orphan: its usage enters RUSAGE_CHILDREN.
reap_orphan(r) ==
    /\ Orphaned(r)
    /\ child[r].state = "zombie"
    /\ \E rss \in 1..MaxRssKb :
          /\ child' = [child EXCEPT ![r] = NoChild]
          /\ rusage_children' = Reaped(rusage_children, rss)
    /\ UNCHANGED <<config, permits, waiters, pc, req, sandbox, roots,
                   next_uuid, elapsed, waited, result, log>>

\* The check as on hosts whose RSS report is skipped: elapsed CPU only.
check_resource_usage_CpuOnly(secs, maxrss) ==
    IF secs > limits.cpu_time THEN Err("ResourceExceeded", "CPU time limit exceeded")
    ELSE Ok("checked")

\* sandbox.rs 55-90 (Linux): elapsed wall-clock seconds against limits.cpu_time,
\* then RUSAGE_CHILDREN max_rss (KiB, converted to bytes) against limits.memory.
check_resource_usage(secs, maxrss) ==
    IF secs > limits.cpu_time THEN Err("ResourceExceeded", "CPU time limit exceeded")
    ELSE IF maxrss * 1024 > limits.memory
         THEN Err("ResourceExceeded", "Memory limit exceeded")
         ELSE Ok("checked")

\* sandbox.rs 215-233: the exit status of a child that was waited for.
ExitOutcome(exit) ==
    IF exit # "code0"
    THEN IF exit \in {"sig9", "sig15"}
         THEN Err("Timeout", "killed by signal")
         ELSE Err("Sandbox", "Process exited with status")
    ELSE Ok("Success")

\* An execute that reads the exit status and never looks at the resource check.
ExecuteOutcome_SkipsCheck(secs, maxrss, exit) == ExitOutcome(exit)

\* sandbox.rs 210-261 and executor.rs 121-126: the resource check, then the exit
\* status; Ok((stdout, stderr, stats)) is wrapped as ExecutionStatus::Success.
ExecuteOutcome(secs, maxrss, exit) ==
    IF check_resource_usage(secs, maxrss).tag = "Err"
    THEN check_resource_usage(secs, maxrss)
    ELSE ExitOutcome(exit)

\* The code after the wait returned, up to the return of the service call.
finish(r) ==
    /\ pc[r] = "check_resource_usage"
    /\ Return(r, ExecuteOutcome(elapsed[r], rusage_children, child[r].exit),
              Logged(r, "check_resource_usage"))
    /\ child' = [child EXCEPT ![r] = NoChild]
    /\ UNCHANGED rusage_children

\* The await points of CodeExecutionService::execute at which the task owns a
\* Sandbox: the stages' filesystem and command awaits, write_all, the timed wait,
\* and the awaits of the timeout branch.
AwaitsWithSandbox ==
    {"check_tools", "write_source_file", "ensure_directories", "setup_environment",
     "install_dependencies", "compile", "write_input", "wait", "kill_term",
     "grace_sleep", "kill_9"}

\* The caller drops the future of execute while it is pending. Dropping the
\* Acquire future leaves the semaphore queue; dropping _permit returns the permit;
\* dropping the Sandbox runs remove_dir_all, whose error is only logged. A Child
\* is built without kill_on_drop, so dropping its handle leaves the process
\* running. Inside Sandbox::new no handle exists yet: a root that create_dir_all
\* has made stays. With no dependencies the install stage has no await.
cancel(r) ==
    /\ pc[r] \in {"acquire", "Sandbox_new"} \cup AwaitsWithSandbox
    /\ pc[r] = "install_dependencies" => req[r].dependencies # 0
    /\ pc' = [pc EXCEPT ![r] = "cancelled"]
    /\ waiters' = SelectSeq(waiters, LAMBDA w : w # r)
    /\ permits' = IF pc[r] = "acquire" THEN permits ELSE permits + 1
    /\ CASE pc[r] = "acquire" ->
              /\ log' = [log EXCEPT ![r] = Logged(r, "cancel")]
              /\ UNCHANGED <<roots, next_uuid>>
         [] pc[r] = "Sandbox_new" ->
              \E created \in {"none", "root"} :
                 /\ roots' = IF created = "root" THEN roots \cup {next_uuid} ELSE roots
                 /\ next_uuid' = next_uuid + 1
                 /\ log' = [log EXCEPT ![r] = Logged(r, "cancel")]
         [] OTHER ->
              \E removed \in BOOLEAN :
                 /\ roots' = DropSandbox(roots, sandbox[r], removed)
                 /\ log' = [log EXCEPT ![r] =
                               log[r] \o (IF removed THEN <<>> ELSE <<"cleanup_failed">>)
                                      \o <<"cancel">>]
                 /\ UNCHANGED next_uuid
    /\ elapsed' = [elapsed EXCEPT ![r] = 0]
    /\ waited' = [waited EXCEPT ![r] = 0]
    /\ UNCHANGED <<config, req, sandbox, child, rusage_children, result>>

\* service.rs 60-62: semaphore.available_permits().
get_available_slots == permits

\* ------------------------------------------------------------ the server
\* ExecutionStatus::to_string (types.rs 116-126).
to_string(status) ==
    CASE status = "Success" -> "success"
      [] status = "Error" -> "error"
      [] status = "Timeout" -> "timeout"
      [] status = "CompilationError" -> "compilation_error"
      [] status = "SystemError" -> "system_error"

\* server.rs 53-95: the status field of the ExecuteResponse.
ResponseStatus(res) ==
    IF res.tag = "Ok" THEN to_string(res.kind) ELSE "error"

\* server.rs 53-95: the stderr field of the ExecuteResponse: the child's stderr, the
\* fixed text of a parse failure, or the error's Display text.
ResponseStderr(res, request) ==
    CASE res.tag = "Ok" -> <<"stderr">>
      [] res.tag = "Rejected" -> <<res.msg>>
      [] OTHER -> <<res.kind, res.msg>>

\* ------------------------------------------------------- specifications
Next ==
    \E r \in Requests :
        \/ Start(r)
        \/ Acquire(r)
        \/ Sandbox_new(r)
        \/ check_tools(r)
        \/ write_source_file(r)
        \/ ensure_directories(r)
        \/ setup_environment(r)
        \/ install_dependencies(r)
        \/ compile(r)
        \/ spawn(r)
        \/ write_input(r)
        \/ stdin_blocked(r)
        \/ tick(r)
        \/ wait_with_output(r)
        \/ wait_error(r)
        \/ timeout_fires(r)
        \/ kill_term(r)
        \/ grace_sleep(r)
        \/ kill_9(r)
        \/ orphan_exit(r)
        \/ reap_orphan(r)
        \/ finish(r)
        \/ cancel(r)

Spec == Init /\ [][Next]_vars

SpecRequest == InitRequest /\ [][Next]_vars

SpecServer == InitServer /\ [][Next]_vars

\* The steps of an admitted request up to its return: the runtime polls a ready
\* task, a filesystem or command await completes, the child exits or the timer
\* fires.
Served(r) ==
    \/ Sandbox_new(r) \/ check_tools(r) \/ write_source_file(r)
    \/ ensure_directories(r) \/ setup_environment(r) \/ install_dependencies(r)
    \/ compile(r) \/ spawn(r) \/ write_input(r) \/ stdin_blocked(r) \/ tick(r)
    \/ wait_with_output(r) \/ wait_error(r) \/ timeout_fires(r) \/ kill_term(r)
    \/ grace_sleep(r) \/ kill_9(r) \/ finish(r)

\* The service with a single permit, where the second client has to wait.
InitFair == Init /\ max_concurrent = 1 /\ toolchain_rss = 1

\* The service when every admitted request keeps running to its return and the
\* semaphore wakes the task at the head of its queue once a permit is free.
SpecFair ==
    /\ InitFair /\ [][Next]_vars
    /\ \A r \in Requests : WF_vars(Acquire(r)) /\ WF_vars(Served(r))

\* ------------------------------------------------ the language scaffold
\* Scaffold runs made on one sandbox directory.
MaxScaffoldRuns == 2

\* The sandbox directory the pipeline hands to the stages: the directories of
\* Sandbox::new and the source file of write_source_file.
SandboxFiles == {"bin", "lib", "usr", "tmp", "home", "tmp/source"}

\* The result of a filesystem step: Ok with the paths now present, or the error.
FsOk(files) == [status |-> "Ok", files |-> files]
FsErr(files, msg) == [status |-> msg, files |-> files]

\* tokio::fs::create_dir_all: Ok when the directory exists already.
create_dir_all(files, dirs) == FsOk(files \cup dirs)

\* tokio::fs::write: creates the file or replaces its content.
fs_write(files, path) == FsOk(files \cup {path})

\* std::os::unix::fs::symlink: fails with EEXIST when the link path exists.
symlink(files, link) ==
    IF link \in files THEN FsErr(files, "Failed to create python symlink")
    ELSE FsOk(files \cup {link})

\* virtualenv venv: creates or refreshes the environment directory.
virtualenv(files) == FsOk(files \cup {"venv", "venv/bin/python3"})

\* go mod init code-execution: exits non-zero when go.mod exists already.
go_mod_init(files) ==
    IF "go.mod" \in files THEN FsErr(files, "Failed to initialize go.mod")
    ELSE FsOk(files \cup {"go.mod"})

\* LanguageExecutor::ensure_directories of each executor.
EnsureDirectories(language, files) ==
    CASE language \in {"python", "go", "javascript"} ->
            create_dir_all(files, {"tmp", "src", "build"})
      [] language = "typescript" -> create_dir_all(files, {"tmp", "src", "build", "dist"})
      [] language = "rust" -> create_dir_all(files, {"tmp", "src", "target"})

\* LanguageExecutor::setup_environment of each executor, on a host whose
\* commands and filesystem work.
SetupEnvironment(language, files) ==
    CASE language = "python" ->
            symlink(virtualenv(files).files, "tmp/python3")
      [] language = "go" -> go_mod_init(files)
      [] language = "javascript" -> fs_write(files, "package.json")
      [] language = "typescript" ->
            fs_write(fs_write(files, "tsconfig.json").files, "package.json")
      [] language = "rust" ->
            fs_write(create_dir_all(files, {"src"}).files, "Cargo.toml")

\* executor.rs 81-82: ensure_directories(..)?, then setup_environment(..)?.
Scaffold(language, files) ==
    IF EnsureDirectories(language, files).status # "Ok"
    THEN EnsureDirectories(language, files)
    ELSE SetupEnvironment(language, EnsureDirectories(language, files).files)

\* The directories on which the scaffold is tried.
Projects ==
    {[language |-> l, files |-> SandboxFiles, status |-> "Ok", runs |-> 0,
      dependencies |-> d, program |-> "-"] : l \in Languages, d \in 0..1}

\* One more run of stages 1-2 in the same sandbox directory.
scaffold ==
    /\ workload = "scaffold"
    /\ project.status = "Ok"
    /\ project.runs < MaxScaffoldRuns
    /\ project' = [project EXCEPT
                      !.files = Scaffold(project.language, project.files).files,
                      !.status = Scaffold(project.language, project.files).status,
                      !.runs = @ + 1]
    /\ UNCHANGED <<workload, max_concurrent, permits, waiters, pc, req, sandbox, roots,
                   next_uuid, child, elapsed, waited, rusage_children, toolchain_rss,
                   result, log, source, analysis, progress>>

\* tokio::fs::rename: the file is at `to` afterwards and no longer at `from`.
fs_rename(files, from, to) ==
    IF from \in files THEN FsOk((files \ {from}) \cup {to})
    ELSE FsErr(files, "Failed to move source file")

\* LanguageExecutor::install_dependencies with its command succeeding: Ok and
\* nothing done for an empty list; else pip of the virtual environment installs
\* into venv/, npm into node_modules/, go get into go.sum, and the Rust
\* executor rewrites Cargo.toml.
InstallDependencies(language, files, dependencies) ==
    IF dependencies = 0 THEN FsOk(files)
    ELSE CASE language = "python" ->
                 FsOk(files \cup {"requirements.txt", "venv/lib/site-packages"})
           [] language \in {"javascript", "typescript"} -> FsOk(files \cup {"node_modules"})
           [] language = "go" -> FsOk(files \cup {"go.sum"})
           [] language = "rust" -> fs_write(files, "Cargo.toml")

\* LanguageExecutor::compile with its commands succeeding; "tmp/source" is the
\* file write_source_file wrote, tmp/source.<extension>.
Compile(language, files) ==
    CASE language = "python" -> fs_rename(files, "tmp/source", "tmp/main.py")
      [] language = "javascript" -> FsOk(files)
      [] language = "typescript" ->
            IF fs_rename(files, "tmp/source", "src/index.ts").status # "Ok"
            THEN fs_rename(files, "tmp/source", "src/index.ts")
            ELSE FsOk(fs_rename(files \cup {"src"}, "tmp/source", "src/index.ts").files
                          \cup {"node_modules", "dist", "dist/index.js"})
      [] language = "rust" ->
            IF fs_rename(files, "tmp/source", "src/main.rs").status # "Ok"
            THEN fs_rename(files, "tmp/source", "src/main.rs")
            ELSE FsOk(fs_rename(files, "tmp/source", "src/main.rs").files
                          \cup {"target", "target/release/code-execution"})
      [] language = "go" ->
            IF fs_rename(files, "tmp/source", "main.go").status # "Ok"
            THEN fs_rename(files, "tmp/source", "main.go")
            ELSE FsOk(fs_rename(files, "tmp/source", "main.go").files \cup {"code-execution"})

\* The file run_command and run_args name, relative to the child's working
\* directory (the sandbox root): `python3 -c "...sys.path.append('tmp');
\* import main"`, `node source.js`, `node dist/index.js`, the two binaries.
RunPath(language) ==
    CASE language = "python" -> "tmp/main.py"
      [] language = "javascript" -> "source.js"
      [] language = "typescript" -> "dist/index.js"
      [] language = "rust" -> "target/release/code-execution"
      [] language = "go" -> "code-execution"

\* sandbox.rs 109-115: a command that starts with "./" is taken as it is, any
\* other is looked up with which::which on the service's PATH.
cmd_path(cmd) ==
    IF StartsWithDotSlash(cmd) THEN cmd ELSE "/usr/bin/" \o cmd

\* Stages 3-4 after one run of stages 1-2, in the same directory.
build ==
    /\ workload = "scaffold"
    /\ project.status = "Ok"
    /\ project.runs = 1
    /\ LET installed == InstallDependencies(project.language, project.files,
                                            project.dependencies)
           compiled == Compile(project.language, installed.files)
       IN  project' = [project EXCEPT
                          !.files = compiled.files,
                          !.status = IF installed.status # "Ok" THEN installed.status
                                     ELSE IF compiled.status # "Ok" THEN compiled.status
                                     ELSE "Built"]
    /\ UNCHANGED <<workload, max_concurrent, permits, waiters, pc, req, sandbox, roots,
                   next_uuid, child, elapsed, waited, rusage_children, toolchain_rss,
                   result, log, source, analysis, progress>>

\* Stage 5: Sandbox::execute resolves the run command and spawns it.
launch ==
    /\ workload = "scaffold"
    /\ project.status = "Built"
    /\ project' = [project EXCEPT !.status = "Running",
                                  !.program = cmd_path(run_command(project.language))]
    /\ UNCHANGED <<workload, max_concurrent, permits, waiters, pc, req, sandbox, roots,
                   next_uuid, child, elapsed, waited, rusage_children, toolchain_rss,
                   result, log, source, analysis, progress>>

\* ------------------------------------------------- the dependency analyzers
\* A source text is a sequence of lines.  A line is one of the forms below;
\* `path` holds the name it mentions split at its separator ('.' in a Python
\* module, '/' in a Go or npm path) and `version` the version it states.
\*   "blank"          (empty line)
\*   "shebang"        #!/usr/bin/env python3
\*   "import"         import a.b
\*   "from"           from a.b import X
\*   "pip"            # pip: name==version
\*   "def"            def handler(event):
\*   "use"            use name::item::Item;
\*   "extern"         extern crate name;
\*   "cargo_version"  // cargo-version: name = "version"
\*   "fn_main"        fn main() {}
\*   "package"        package name
\*   "go_import"      import "a/b/c"
\*   "block_open"     import (
\*   "block_item"         "a/b/c"
\*   "block_close"    )
\*   "go_require"     // go: require a/b/c vversion
\*   "js_import"      import pkg from 'a/b'
\*   "require"        const pkg = require('a/b')
\*   "npm"            // npm: a/b@version
\*   "import_type"    import type { T } from 'a/b'
\*   "interface"      interface Props {}
Line(form, path, version) == [form |-> form, path |-> path, version |-> version]

\* The substrings the detectors look for that the text of a line holds.
Markers(line) ==
    CASE line.form = "shebang" -> {"#!/usr/bin/env python"}
      [] line.form \in {"import", "from", "go_import", "block_open"} -> {"import "}
      [] line.form \in {"pip", "cargo_version", "go_require", "npm"} -> {":", ": "}
      [] line.form = "def" -> {"def ", ":"}
      [] line.form = "use" -> {"use ", "::", ":"}
      [] line.form = "fn_main" -> {"fn main()"}
      [] line.form = "package" -> IF line.path = <<"main">> THEN {"package main"} ELSE {}
      [] line.form = "js_import" ->
            {"import ", "from '"} \cup (IF line.path = <<"react">> THEN {"from 'react'"} ELSE {})
      [] line.form = "import_type" ->
            {"import ", "import type", "from '"}
                \cup (IF line.path = <<"react">> THEN {"from 'react'"} ELSE {})
      [] line.form = "require" -> {"require("}
      [] line.form = "interface" -> {"interface "}
      [] OTHER -> {}

\* str::contains on the source text, for the substrings above.
Contains(source_code, marker) ==
    \E i \in 1..Len(source_code) : marker \in Markers(source_code[i])

\* A detected package; HashSet<Package> is a set of these.
Pkg(name, version) == [name |-> name, version |-> version]

\* default_versions.get(name) or the analyzer's fallback.
get_default_version(table, fallback, package_name) ==
    IF package_name \in DOMAIN table THEN table[package_name] ELSE fallback

\* The lines of one form, and the HashMap the version comments of that form
\* fill when they are collected in text order: a later comment replaces an
\* earlier one of the same name.
LinesOf(source_code, form) == {i \in 1..Len(source_code) : source_code[i].form = form}

ExplicitVersions(source_code, form) ==
    [name \in {source_code[i].path : i \in LinesOf(source_code, form)} |->
        LET last == CHOOSE i \in LinesOf(source_code, form) :
                        /\ source_code[i].path = name
                        /\ \A j \in LinesOf(source_code, form) :
                              source_code[j].path = name => j <= i
        IN  source_code[last].version]

\* explicit_versions.get(name) or else the default version.
VersionOf(explicit_versions, table, fallback, name) ==
    IF name \in DOMAIN explicit_versions THEN explicit_versions[name]
    ELSE get_default_version(table, fallback, name)

\* python.rs initialize_default_versions: the table of default versions, keyed by
\* the package name split at '/'.
PythonDefaultVersions ==
    (<<"numpy">> :> ">=1.24.0") @@
    (<<"pandas">> :> ">=2.0.0") @@
    (<<"scipy">> :> ">=1.10.0") @@
    (<<"scikit-learn">> :> ">=1.2.0") @@
    (<<"tensorflow">> :> ">=2.12.0") @@
    (<<"torch">> :> ">=2.0.0") @@
    (<<"fastapi">> :> ">=0.95.0") @@
    (<<"flask">> :> ">=2.3.0") @@
    (<<"requests">> :> ">=2.30.0") @@
    (<<"aiohttp">> :> ">=3.8.0") @@
    (<<"httpx">> :> ">=0.24.0") @@
    (<<"boto3">> :> ">=1.26.0") @@
    (<<"aws-lambda-powertools">> :> ">=2.18.0") @@
    (<<"sqlalchemy">> :> ">=2.0.0") @@
    (<<"pymongo">> :> ">=4.3.0") @@
    (<<"redis">> :> ">=4.5.0") @@
    (<<"pydantic">> :> ">=2.0.0") @@
    (<<"python-dotenv">> :> ">=1.0.0") @@
    (<<"pillow">> :> ">=9.5.0")

\* rust.rs initialize_default_versions: the table of default versions, keyed by
\* the package name split at '/'.
RustDefaultVersions ==
    (<<"aws-config">> :> "0.55") @@
    (<<"aws-sdk-lambda">> :> "0.28") @@
    (<<"aws-sdk-s3">> :> "0.28") @@
    (<<"aws-sdk-dynamodb">> :> "0.28") @@
    (<<"lambda_runtime">> :> "0.8") @@
    (<<"tokio">> :> "1.28") @@
    (<<"async-trait">> :> "0.1") @@
    (<<"futures">> :> "0.3") @@
    (<<"axum">> :> "0.6") @@
    (<<"reqwest">> :> "0.11") @@
    (<<"hyper">> :> "0.14") @@
    (<<"tower">> :> "0.4") @@
    (<<"serde">> :> "1.0") @@
    (<<"serde_json">> :> "1.0") @@
    (<<"sqlx">> :> "0.7") @@
    (<<"mongodb">> :> "2.5") @@
    (<<"redis">> :> "0.23") @@
    (<<"chrono">> :> "0.4") @@
    (<<"uuid">> :> "1.3") @@
    (<<"tracing">> :> "0.1") @@
    (<<"anyhow">> :> "1.0") @@
    (<<"thiserror">> :> "1.0") @@
    (<<"tokio_test">> :> "0.4") @@
    (<<"mockall">> :> "0.11")

\* go.rs initialize_default_versions: the table of default versions, keyed by
\* the package name split at '/'.
GoDefaultVersions ==
    (<<"github.com", "aws", "aws-lambda-go">> :> "1.41.0") @@
    (<<"github.com", "aws", "aws-sdk-go-v2">> :> "1.18.0") @@
    (<<"github.com", "gin-gonic", "gin">> :> "1.9.0") @@
    (<<"github.com", "go-chi", "chi">> :> "5.0.8") @@
    (<<"github.com", "gorilla", "mux">> :> "1.8.0") @@
    (<<"github.com", "valyala", "fasthttp">> :> "1.47.0") @@
    (<<"github.com", "lib", "pq">> :> "1.10.9") @@
    (<<"go.mongodb.org", "mongo-driver">> :> "1.11.0") @@
    (<<"github.com", "go-redis", "redis">> :> "8.11.5") @@
    (<<"gorm.io", "gorm">> :> "1.25.0") @@
    (<<"github.com", "spf13", "viper">> :> "1.15.0") @@
    (<<"github.com", "sirupsen", "logrus">> :> "1.9.0") @@
    (<<"github.com", "stretchr", "testify">> :> "1.8.0") @@
    (<<"github.com", "google", "uuid">> :> "1.3.0") @@
    (<<"go.uber.org", "zap">> :> "1.24.0") @@
    (<<"cloud.google.com", "go">> :> "1.13.0") @@
    (<<"github.com", "GoogleCloudPlatform", "functions-framework-go">> :> "1.7.0") @@
    (<<"github.com", "Azure", "azure-sdk-for-go">> :> "68.0.0")

\* javascript.rs initialize_default_versions: the table of default versions, keyed by
\* the package name split at '/'.
JavaScriptDefaultVersions ==
    (<<"@aws-sdk", "client-lambda">> :> "^3.350.0") @@
    (<<"@aws-sdk", "client-s3">> :> "^3.350.0") @@
    (<<"@aws-sdk", "client-dynamodb">> :> "^3.350.0") @@
    (<<"axios">> :> "^1.4.0") @@
    (<<"express">> :> "^4.18.0") @@
    (<<"fastify">> :> "^4.17.0") @@
    (<<"node-fetch">> :> "^3.3.0") @@
    (<<"sharp">> :> "^0.32.0") @@
    (<<"mongodb">> :> "^5.6.0") @@
    (<<"mongoose">> :> "^7.2.0") @@
    (<<"pg">> :> "^8.11.0") @@
    (<<"redis">> :> "^4.6.0") @@
    (<<"lodash">> :> "^4.17.21") @@
    (<<"date-fns">> :> "^2.30.0") @@
    (<<"zod">> :> "^3.21.0") @@
    (<<"uuid">> :> "^9.0.0") @@
    (<<"@google-cloud", "functions-framework">> :> "^3.3.0") @@
    (<<"@azure", "functions">> :> "^3.5.0") @@
    (<<"jest">> :> "^29.5.0") @@
    (<<"supertest">> :> "^6.3.0")

\* typescript.rs initialize_default_versions: the table of default versions, keyed by
\* the package name split at '/'.
TypeScriptDefaultVersions ==
    (<<"react">> :> "^18.0.0") @@
    (<<"react-dom">> :> "^18.2.0") @@
    (<<"@types", "react">> :> "^18.0.0") @@
    (<<"@types", "react-dom">> :> "^18.2.0") @@
    (<<"next">> :> "13") @@
    (<<"@aws-sdk", "client-lambda">> :> "^3.350.0") @@
    (<<"@aws-sdk", "client-s3">> :> "^3.350.0") @@
    (<<"@aws-sdk", "client-dynamodb">> :> "^3.350.0") @@
    (<<"@aws-lambda-powertools", "logger">> :> "^1.8.0") @@
    (<<"@aws-lambda-powertools", "tracer">> :> "^1.8.0") @@
    (<<"axios">> :> "^1.0.0") @@
    (<<"express">> :> "^4.18.0") @@
    (<<"fastify">> :> "^4.17.0") @@
    (<<"node-fetch">> :> "^3.3.0") @@
    (<<"mongodb">> :> "^5.6.0") @@
    (<<"mongoose">> :> "^7.2.0") @@
    (<<"pg">> :> "^8.11.0") @@
    (<<"redis">> :> "^4.6.0") @@
    (<<"typeorm">> :> "^0.3.0") @@
    (<<"prisma">> :> "^4.14.0") @@
    (<<"zod">> :> "3.x") @@
    (<<"date-fns">> :> "2.30.0") @@
    (<<"lodash">> :> "^4.17.21") @@
    (<<"uuid">> :> "^9.0.0") @@
    (<<"@tanstack", "react-query">> :> "4") @@
    (<<"@google-cloud", "functions-framework">> :> "^3.3.0") @@
    (<<"@azure", "functions">> :> "^3.5.0") @@
    (<<"jest">> :> "^29.5.0") @@
    (<<"supertest">> :> "^6.3.0")

\* ---- python.rs
PythonStdlib ==
    {"os", "sys", "re", "math", "random", "datetime", "time", "json", "collections",
     "itertools", "functools", "typing", "pathlib", "subprocess", "argparse", "logging",
     "unittest", "threading"}

is_stdlib_module(module) == module \in PythonStdlib

\* What get_import_re captures on a line: the module after `from` or `import`
\* (<<>> when the line does not match).  An ES import line starts with
\* `import pkg`, a type import with `import type`.
Python_import_capture(line) ==
    CASE line.form \in {"import", "from"} -> line.path
      [] line.form = "js_import" -> <<"pkg">>
      [] line.form = "import_type" -> <<"type">>
      [] OTHER -> <<>>

\* The loop of analyze_dependencies: line by line, a pip comment first fills
\* explicit_versions, then an import on the line is resolved against what
\* explicit_versions holds at that point.
RECURSIVE Python_scan(_, _, _)
Python_scan(lines, explicit_versions, packages) ==
    IF lines = <<>> THEN packages
    ELSE LET line == Head(lines)
             explicit == IF line.form = "pip"
                         THEN [n \in DOMAIN explicit_versions \cup {line.path} |->
                                  IF n = line.path THEN line.version ELSE explicit_versions[n]]
                         ELSE explicit_versions
             module == Python_import_capture(line)
             base_module == Head(module)
             package_name == IF base_module = "PIL" THEN <<"pillow">> ELSE <<base_module>>
         IN  IF module = <<>> \/ is_stdlib_module(base_module)
             THEN Python_scan(Tail(lines), explicit, packages)
             ELSE Python_scan(Tail(lines), explicit,
                     packages \cup {Pkg(package_name,
                         VersionOf(explicit, PythonDefaultVersions, ">=1.0.0", package_name))})

Python_analyze_dependencies(source_code) == Python_scan(source_code, <<>>, {})

Python_can_handle(source_code) ==
    LET has_python_shebang == source_code # <<>> /\ Head(source_code).form = "shebang"
        has_python_imports == /\ Contains(source_code, "import ")
                              /\ ~Contains(source_code, "from '")
                              /\ ~Contains(source_code, "package main")
        has_python_def == /\ Contains(source_code, "def ")
                          /\ Contains(source_code, ":")
                          /\ ~Contains(source_code, "package main")
    IN  has_python_shebang \/ (has_python_imports /\ has_python_def)

\* ---- javascript.rs and typescript.rs
\* The import path get_import_re captures on a line (<<>> when none).
JavaScript_import_capture(line) ==
    IF line.form \in {"js_import", "require", "import_type"} THEN line.path ELSE <<>>

TypeScript_import_capture(line) ==
    IF line.form \in {"js_import", "import_type"} THEN line.path ELSE <<>>

\* starts_with('.') || starts_with('/'): "./x" and "../x" split to a first
\* segment "." or "..", "/x" to an empty first segment.
is_local_import(import_path) == Head(import_path) \in {".", "..", ""}

\* contains('/') ? split('/').take(2).join("/") : the path itself.
npm_package_name(import_path) ==
    IF Len(import_path) >= 2 THEN SubSeq(import_path, 1, 2) ELSE import_path

\* The loop over the captured import paths (one per line, <<>> for none).
npm_packages(source_code, import_paths, table) ==
    {Pkg(npm_package_name(import_paths[i]),
         VersionOf(ExplicitVersions(source_code, "npm"), table, "^1.0.0",
                   npm_package_name(import_paths[i]))) :
        i \in {j \in 1..Len(import_paths) :
                  import_paths[j] # <<>> /\ ~is_local_import(import_paths[j])}}

JavaScript_analyze_dependencies(source_code) ==
    npm_packages(source_code,
                 [i \in 1..Len(source_code) |-> JavaScript_import_capture(source_code[i])],
                 JavaScriptDefaultVersions)

JavaScript_can_handle(source_code) ==
    /\ Contains(source_code, "require(") \/ Contains(source_code, "import ")
    /\ ~Contains(source_code, "import type")
    /\ ~Contains(source_code, "fn main()")
    /\ ~Contains(source_code, "package main")
    /\ ~Contains(source_code, "#!/usr/bin/env python")

\* The React check of the TypeScript analyzer: react takes its explicit or
\* default version, @types/react the default version only.
TypeScript_react(source_code) ==
    IF \E m \in {"from 'react'", "from \"react\"", ": React.", "<React.",
                 "extends React.", "implements React."} : Contains(source_code, m)
    THEN {Pkg(<<"react">>, VersionOf(ExplicitVersions(source_code, "npm"),
                                     TypeScriptDefaultVersions, "^1.0.0", <<"react">>)),
          Pkg(<<"@types", "react">>,
              get_default_version(TypeScriptDefaultVersions, "^1.0.0", <<"@types", "react">>))}
    ELSE {}

TypeScript_analyze_dependencies(source_code) ==
    TypeScript_react(source_code)
        \cup npm_packages(source_code,
                          [i \in 1..Len(source_code) |->
                              TypeScript_import_capture(source_code[i])],
                          TypeScriptDefaultVersions)

TypeScript_can_handle(source_code) ==
    LET has_ts_features == \E m \in {"import type", "interface ", ": React.", "<Props>",
                                     ": FC<", "as const"} : Contains(source_code, m)
        has_type_annotations == \E m \in {": ", "<>", ":\\s*[A-Z]"} : Contains(source_code, m)
    IN  /\ has_ts_features \/ has_type_annotations
        /\ ~Contains(source_code, "fn main()")
        /\ ~Contains(source_code, "package main")
        /\ ~Contains(source_code, "#!/usr/bin/env python")

\* ---- rust.rs
\* What get_use_re captures on a line: the base crate name of a use statement
\* or of an extern crate (<<>> when the line does not match).
Rust_use_capture(line) ==
    IF line.form \in {"use", "extern"} THEN line.path ELSE <<>>

\* import_path.starts_with("std::"), on a path split at "::".
Rust_is_std_import(import_path) ==
    Len(import_path) >= 2 /\ Head(import_path) = "std"

\* known_crates of get_canonical_crate_name.
KnownCrates ==
    ("serde_json" :> "serde_json") @@ ("tokio_test" :> "tokio_test") @@
    ("lambda_runtime" :> "lambda_runtime") @@ ("aws_config" :> "aws-config") @@
    ("aws_sdk_lambda" :> "aws-sdk-lambda") @@ ("aws_sdk_s3" :> "aws-sdk-s3") @@
    ("aws_sdk_dynamodb" :> "aws-sdk-dynamodb") @@ ("serde" :> "serde") @@
    ("tokio" :> "tokio") @@ ("async_trait" :> "async-trait") @@ ("futures" :> "futures")

\* name.replace('_', "-") for the crate names that start with "aws_" and that
\* known_crates does not list.
AwsHyphenated == ("aws_types" :> "aws-types")

get_canonical_crate_name(name) ==
    IF name \in DOMAIN KnownCrates THEN KnownCrates[name]
    ELSE IF <<name>> \in DOMAIN RustDefaultVersions THEN name
    ELSE IF name \in DOMAIN AwsHyphenated THEN AwsHyphenated[name]
    ELSE name

\* analyze_dependencies hands is_std_import the captured crate name alone.
Rust_analyze_dependencies(source_code) ==
    {Pkg(<<get_canonical_crate_name(Head(Rust_use_capture(source_code[i])))>>,
         VersionOf(ExplicitVersions(source_code, "cargo_version"), RustDefaultVersions, "0.1",
                   <<get_canonical_crate_name(Head(Rust_use_capture(source_code[i])))>>)) :
        i \in {j \in 1..Len(source_code) :
                  /\ Rust_use_capture(source_code[j]) # <<>>
                  /\ ~Rust_is_std_import(Rust_use_capture(source_code[j]))}}

Rust_can_handle(source_code) ==
    \/ Contains(source_code, "fn main()")
    \/ Contains(source_code, "#[derive")
    \/ (Contains(source_code, "use ") /\ Contains(source_code, "::"))

\* ---- go.rs
\* The path segments that hold a '.'.
DottedSegments == {"github.com", "go.uber.org", "gorm.io"}

\* !import_path.contains('.')
Go_is_std_import(import_path) ==
    ~\E i \in 1..Len(import_path) : import_path[i] \in DottedSegments

\* A base package that keeps the whole import path.
get_base_package_FullPath(import_path) == import_path

get_base_package(import_path) ==
    IF Len(import_path) >= 2 /\ Head(import_path) = "github.com" /\ Len(import_path) >= 3
    THEN SubSeq(import_path, 1, 3)
    ELSE IF Len(import_path) >= 2 THEN SubSeq(import_path, 1, 2)
    ELSE import_path

\* The import path taken from a line: group 1 of get_import_re for a single
\* import, group 2 for a bare quoted path, which counts inside a block only.
Go_import_capture(line, in_import_block) ==
    CASE line.form = "go_import" -> line.path
      [] line.form = "block_item" /\ in_import_block -> line.path
      [] OTHER -> <<>>

\* format!("v{}", version) over every `// go: require` comment of the text.
Go_explicit_versions(source_code) ==
    [name \in DOMAIN ExplicitVersions(source_code, "go_require") |->
        "v" \o ExplicitVersions(source_code, "go_require")[name]]

RECURSIVE Go_scan(_, _, _, _)
Go_scan(lines, explicit_versions, in_import_block, packages) ==
    IF lines = <<>> THEN packages
    ELSE LET line == Head(lines)
             import_path == Go_import_capture(line, in_import_block)
             base_package == get_base_package(import_path)
         IN  IF line.form = "block_open"
             THEN Go_scan(Tail(lines), explicit_versions, TRUE, packages)
             ELSE IF line.form = "block_close" /\ in_import_block
             THEN Go_scan(Tail(lines), explicit_versions, FALSE, packages)
             ELSE IF import_path = <<>> \/ Go_is_std_import(import_path)
             THEN Go_scan(Tail(lines), explicit_versions, in_import_block, packages)
             ELSE Go_scan(Tail(lines), explicit_versions, in_import_block,
                     packages \cup {Pkg(base_package,
                         VersionOf(explicit_versions, GoDefaultVersions, "1.0.0",
                                   base_package))})

Go_analyze_dependencies(source_code) ==
    Go_scan(source_code, Go_explicit_versions(source_code), FALSE, {})

\* The regex text of the Python pattern holds no "NOT Go" (the words stand in
\* a comment above it), so pattern.contains("NOT Go") is false.
PatternNamesNotGo == FALSE

\* is_definitely_go: the package pattern and the import pattern are both
\* flagged required; a non-required pattern counts only through the branch
\* that asks for "NOT Go" in the pattern text.
is_definitely_go(source_code) ==
    LET package_decl == \E i \in 1..Len(source_code) : source_code[i].form = "package"
        import_syntax == \E i \in 1..Len(source_code) :
                            source_code[i].form \in {"block_open", "go_import"}
        python_pattern == \E i \in 1..Len(source_code) :
                             \/ source_code[i].form \in {"def", "shebang"}
                             \/ /\ source_code[i].form = "import"
                                /\ Head(source_code[i].path) = "os"
        has_negative_pattern == python_pattern /\ PatternNamesNotGo
    IN  /\ package_decl
        /\ import_syntax
        /\ ~has_negative_pattern

Go_can_handle(source_code) == is_definitely_go(source_code)

\* ---- mod.rs
\* The analyzers in the order analyze_source_code builds them.
Analyzers == <<"python", "javascript", "typescript", "rust", "go">>

can_handle(language, source_code) ==
    CASE language = "python" -> Python_can_handle(source_code)
      [] language = "javascript" -> JavaScript_can_handle(source_code)
      [] language = "typescript" -> TypeScript_can_handle(source_code)
      [] language = "rust" -> Rust_can_handle(source_code)
      [] language = "go" -> Go_can_handle(source_code)

analyze_dependencies_of(language, source_code) ==
    CASE language = "python" -> Python_analyze_dependencies(source_code)
      [] language = "javascript" -> JavaScript_analyze_dependencies(source_code)
      [] language = "typescript" -> TypeScript_analyze_dependencies(source_code)
      [] language = "rust" -> Rust_analyze_dependencies(source_code)
      [] language = "go" -> Go_analyze_dependencies(source_code)

\* The value of a call: Ok with the language and its packages, or the error.
Analyzed(call, language, packages) ==
    [call |-> call, status |-> "Ok", tag |-> language, packages |-> packages]
NotAnalyzed(call, error) ==
    [call |-> call, status |-> error, tag |-> "-", packages |-> {}]

\* The loop of analyze_source_code over a list of analyzers: the first one
\* whose can_handle accepts analyzes the text; with none, a Validation error.
first_can_handle(analyzers, source_code) ==
    IF \E i \in 1..Len(analyzers) : can_handle(analyzers[i], source_code)
    THEN LET first == CHOOSE i \in 1..Len(analyzers) :
                         /\ can_handle(analyzers[i], source_code)
                         /\ \A j \in 1..(i - 1) : ~can_handle(analyzers[j], source_code)
         IN  Analyzed("analyze_source_code", analyzers[first],
                      analyze_dependencies_of(analyzers[first], source_code))
    ELSE NotAnalyzed("analyze_source_code", "Validation")

\* The same loop over the analyzers in the opposite order.
analyze_source_code_Reversed ==
    /\ workload = "analyzers"
    /\ analysis = NoAnalysis
    /\ analysis' = first_can_handle(<<"go", "rust", "typescript", "javascript", "python">>,
                                    source)
    /\ UNCHANGED <<workload, max_concurrent, permits, waiters, pc, req, sandbox, roots,
                   next_uuid, child, elapsed, waited, rusage_children, toolchain_rss,
                   result, log, project, source, progress>>

analyze_source_code ==
    /\ workload = "analyzers"
    /\ analysis = NoAnalysis
    /\ analysis' = first_can_handle(Analyzers, source)
    /\ UNCHANGED <<workload, max_concurrent, permits, waiters, pc, req, sandbox, roots,
                   next_uuid, child, elapsed, waited, rusage_children, toolchain_rss,
                   result, log, project, source, progress>>

\* DependencyAnalyzer::analyze_dependencies of one analyzer, called directly.
analyze_dependencies(language) ==
    /\ workload = "analyzers"
    /\ analysis = NoAnalysis
    /\ analysis' = Analyzed("analyze_dependencies", language,
                            analyze_dependencies_of(language, source))
    /\ UNCHANGED <<workload, max_concurrent, permits, waiters, pc, req, sandbox, roots,
                   next_uuid, child, elapsed, waited, rusage_children, toolchain_rss,
                   result, log, project, source, progress>>

\* Longest source text enumerated, in lines.
MaxLines == 3

\* The lines the enumerated source texts are made of.
LineForms ==
    {Line("shebang", <<>>, ""), Line("def", <<>>, ""), Line("fn_main", <<>>, ""),
     Line("interface", <<>>, ""), Line("block_open", <<>>, ""),
     Line("block_close", <<>>, ""),
     Line("import", <<"numpy">>, ""), Line("import", <<"os", "path">>, ""),
     Line("from", <<"PIL">>, ""), Line("pip", <<"numpy">>, "1.26.0"),
     Line("use", <<"tokio">>, ""), Line("use", <<"std">>, ""), Line("use", <<"core">>, ""),
     Line("use", <<"aws_config">>, ""), Line("extern", <<"serde">>, ""),
     Line("cargo_version", <<"tokio">>, "1.30"),
     Line("package", <<"main">>, ""), Line("package", <<"handlers">>, ""),
     Line("go_import", <<"fmt">>, ""),
     Line("go_import", <<"github.com", "gin-gonic", "gin">>, ""),
     Line("go_import", <<"github.com", "gin-gonic", "gin", "binding">>, ""),
     Line("block_item", <<"go.uber.org", "zap", "zapcore">>, ""),
     Line("go_require", <<"github.com", "gin-gonic", "gin">>, "1.9.1"),
     Line("js_import", <<"express">>, ""), Line("js_import", <<"react">>, ""),
     Line("js_import", <<".", "utils">>, ""), Line("require", <<"lodash", "fp">>, ""),
     Line("import_type", <<"aws-lambda">>, ""), Line("npm", <<"express">>, "4.17.0")}

\* The source text of test_python_dependency_analysis: the text opens with an
\* empty line, and nothing after its imports starts with `import` or `from`.
PythonTestSource ==
    <<Line("blank", <<>>, ""), Line("shebang", <<>>, ""),
      Line("import", <<"json">>, ""), Line("import", <<"boto3">>, ""),
      Line("import", <<"pandas">>, ""), Line("from", <<"PIL">>, ""),
      Line("import", <<"numpy">>, ""), Line("from", <<"io">>, ""),
      Line("def", <<>>, "")>>

Sources ==
    UNION {[1..n -> LineForms] : n \in 0..MaxLines} \cup {PythonTestSource}

\* ------------------------------------------------ the installation manager
\* Calls of install_dependencies made on one InstallationManager (the method
\* takes &self and the progress record sits behind a mutex, so calls may overlap).
MaxCalls == 2

\* Most packages a language provider requires.
MaxPackages == 2

Calls == 1..MaxCalls

\* A call that has not been made yet.
NoCall == [pc |-> "idle", package |-> 0, result |-> "-"]

\* InstallationManager::new: status NotStarted, no step; with it the package
\* managers (one is available or none is) and the provider's required packages.
Managers ==
    {[status |-> "NotStarted", current_step |-> "", total_steps |-> 0,
      current_step_index |-> 0, available |-> a, required_packages |-> n,
      call |-> [c \in Calls |-> NoCall]] : a \in BOOLEAN, n \in 0..MaxPackages}

\* update_progress: the step's name, and one more step counted.
update_progress(p, step) ==
    [p EXCEPT !.current_step = step, !.current_step_index = @ + 1]

\* The call goes on at `to`, is_installed being next for package k.
Proceed(p, c, to, k) == [p EXCEPT !.call[c].pc = to, !.call[c].package = k]

\* `?` on an Err: the call returns it and writes nothing to the progress record.
Fail(p, c, error) == [p EXCEPT !.call[c].pc = "returned", !.call[c].result = error]

\* After package k - 1: is_installed for package k, or, past the last
\* package, "Validating installation" and validate_installation.
NextPackage(p, c, k) ==
    IF k <= p.required_packages THEN Proceed(p, c, "is_installed", k)
    ELSE Proceed(update_progress(p, "Validating installation"), c, "validate_installation", k)

ManagerUnchanged ==
    UNCHANGED <<workload, max_concurrent, permits, waiters, pc, req, sandbox, roots,
                next_uuid, child, elapsed, waited, rusage_children, toolchain_rss,
                result, log, project, source, analysis>>

\* install_dependencies up to its first await: InProgress, the step counters,
\* the package manager looked up, "Updating package list".
install_dependencies_begin(c) ==
    /\ workload = "manager"
    /\ progress.call[c].pc = "idle"
    /\ LET started == [progress EXCEPT !.status = "InProgress",
                                       !.total_steps = progress.required_packages + 2,
                                       !.current_step_index = 0]
       IN  progress' = IF ~progress.available
                       THEN Fail(started, c, "System")
                       ELSE Proceed(update_progress(started, "Updating package list"),
                                    c, "update_package_list", 0)
    /\ ManagerUnchanged

update_package_list(c) ==
    /\ workload = "manager"
    /\ progress.call[c].pc = "update_package_list"
    /\ \E ok \in BOOLEAN :
          progress' = IF ok THEN NextPackage(progress, c, 1)
                      ELSE Fail(progress, c, "PackageManager")
    /\ ManagerUnchanged

is_installed(c) ==
    /\ workload = "manager"
    /\ progress.call[c].pc = "is_installed"
    /\ \E answer \in {"installed", "missing", "error"} :
          progress' =
              CASE answer = "installed" ->
                      NextPackage(progress, c, progress.call[c].package + 1)
                [] answer = "missing" ->
                      Proceed(update_progress(progress, "Installing package"), c,
                              "install", progress.call[c].package)
                [] answer = "error" -> Fail(progress, c, "PackageManager")
    /\ ManagerUnchanged

install(c) ==
    /\ workload = "manager"
    /\ progress.call[c].pc = "install"
    /\ \E ok \in BOOLEAN :
          progress' = IF ok THEN NextPackage(progress, c, progress.call[c].package + 1)
                      ELSE Fail(progress, c, "PackageManager")
    /\ ManagerUnchanged

\* A validation step that already reports Complete.
validate_installation_Complete(c) ==
    /\ workload = "manager"
    /\ progress.call[c].pc = "validate_installation"
    /\ \E ok \in BOOLEAN :
          progress' = IF ok
                      THEN [Proceed(update_progress(progress, "Setting up environment"),
                                    c, "setup_environment", progress.call[c].package)
                               EXCEPT !.status = "Complete"]
                      ELSE Fail(progress, c, "Validation")
    /\ ManagerUnchanged

validate_installation(c) ==
    /\ workload = "manager"
    /\ progress.call[c].pc = "validate_installation"
    /\ \E ok \in BOOLEAN :
          progress' = IF ok
                      THEN Proceed(update_progress(progress, "Setting up environment"),
                                   c, "setup_environment", progress.call[c].package)
                      ELSE Fail(progress, c, "Validation")
    /\ ManagerUnchanged

\* The provider's setup_environment, and on Ok the end of the call: Complete,
\* "Installation complete", Ok(()).
provider_setup_environment(c) ==
    /\ workload = "manager"
    /\ progress.call[c].pc = "setup_environment"
    /\ \E ok \in BOOLEAN :
          progress' = IF ok
                      THEN [progress EXCEPT !.status = "Complete",
                                            !.current_step = "Installation complete",
                                            !.call[c].pc = "returned",
                                            !.call[c].result = "Ok"]
                      ELSE Fail(progress, c, "System")
    /\ ManagerUnchanged

\* The library calls, each on its own input; the service is not running.
InitLibrary ==
    /\ max_concurrent = 1 /\ permits = 1 /\ toolchain_rss = 1
    /\ waiters = <<>>
    /\ pc = [r \in Requests |-> "off"]
    /\ req = [r \in Requests |-> NoRequest]
    /\ sandbox = [r \in Requests |-> 0]
    /\ roots = {ExecutorRoot}
    /\ next_uuid = ExecutorRoot + 1
    /\ child = [r \in Requests |-> NoChild]
    /\ elapsed = [r \in Requests |-> 0]
    /\ waited = [r \in Requests |-> 0]
    /\ rusage_children = 0
    /\ result = [r \in Requests |-> NoResult]
    /\ log = [r \in Requests |-> <<>>]
    /\ \/ /\ workload = "scaffold"
          /\ project \in Projects
          /\ source = NoSource /\ analysis = NoAnalysis /\ progress = NoProgress
       \/ /\ workload = "analyzers"
          /\ source \in Sources
          /\ project = NoProject /\ analysis = NoAnalysis /\ progress = NoProgress
       \/ /\ workload = "manager"
          /\ progress \in Managers
          /\ project = NoProject /\ source = NoSource /\ analysis = NoAnalysis

NextLibrary ==
    \/ scaffold
    \/ build
    \/ launch
    \/ analyze_source_code
    \/ \E language \in Languages : analyze_dependencies(language)
    \/ \E c \in Calls :
          \/ install_dependencies_begin(c)
          \/ update_package_list(c)
          \/ is_installed(c)
          \/ install(c)
          \/ validate_installation(c)
          \/ provider_setup_environment(c)

SpecLibrary == InitLibrary /\ [][NextLibrary]_vars

\* ------------------------------------------------------------- properties
\* A task holds a permit from the completion of acquire until its call returns.
InFlight(r) == pc[r] \notin {"off", "idle", "acquire", "done", "cancelled"}
Holders == {r \in Requests : InFlight(r)}
Range(s) == {s[i] : i \in DOMAIN s}
IsPrefix(s, t) == Len(s) <= Len(t) /\ \A i \in DOMAIN s : s[i] = t[i]

\* C1: on every exit path taken after Sandbox::new succeeded, the sandbox root
\* exists from its creation on while the request is handled, and no longer exists
\* once the result has been returned to the caller.
C1_CleanupIsTotal ==
    \A r \in Requests :
        sandbox[r] # 0 =>
            /\ InFlight(r) => sandbox[r] \in roots
            /\ pc[r] = "done" => sandbox[r] \notin roots

\* C2: under any interleaving of concurrent execute calls on a service created
\* with max_concurrent_executions = N, the requests holding a permit never exceed
\* N, and available permits + in-flight requests = N in every state.
C2_PermitAccounting ==
    /\ Cardinality(Holders) <= max_concurrent
    /\ permits + Cardinality(Holders) = max_concurrent

\* C2 happens: the service is full (N requests in flight, no permit left) while
\* another request waits in acquire.
C2_ServiceFull ==
    /\ permits = 0
    /\ Cardinality(Holders) = max_concurrent
    /\ \E r \in Requests : pc[r] = "acquire"

\* C3: the permit is released on every exit path of execute (Ok, or Err from
\* sandbox creation, a pipeline stage, the timeout branch, the cap-exceeded branch
\* or a non-zero exit): whenever no request is in flight, get_available_slots()
\* equals N.
C3_PermitReleased ==
    Holders = {} => get_available_slots = max_concurrent

\* C3 happens: every request has returned, one of them with Ok and one with an
\* error, and nothing is in flight.
C3_AllReturned ==
    /\ \A r \in Requests : pc[r] = "done"
    /\ \E r \in Requests : result[r].tag = "Ok"
    /\ \E r \in Requests : result[r].tag = "Err"

\* The peak RSS of the children the request itself caused: its toolchain commands
\* and its own child.
OwnCommands(r) ==
    {i \in DOMAIN log[r] :
        \/ log[r][i] = "install_missing_tools"
        \/ RunsCommand(req[r].language, log[r][i])}
OwnMaxRss(r) ==
    Max(child[r].rss, IF OwnCommands(r) # {} THEN toolchain_rss ELSE 0)

\* What the request returns when the service process runs nothing else: the
\* outcome of the same child behaviour with only its own children accounted.
SerialOutcome(r) == ExecuteOutcome(elapsed[r], OwnMaxRss(r), child[r].exit)

\* C4: the status a request receives does not depend on which other requests the
\* service process ran before it or runs concurrently with it: each of the
\* identical requests run in parallel returns what it would return run alone.
C4_SameAsSerial ==
    [][\A r \in Requests :
          pc[r] = "check_resource_usage" /\ pc'[r] = "done"
              => result'[r] = SerialOutcome(r)]_vars

\* The wall-clock timeout of the request has expired with the child still running:
\* the timer fired, or more seconds than the timeout have passed since
\* Sandbox::execute began and until the child was waited for.
Expired(r) ==
    \/ pc[r] \in {"kill_term", "grace_sleep", "kill_9"}
    \/ /\ pc[r] \in {"write_input", "wait", "check_resource_usage"}
       /\ elapsed[r] > req[r].timeout

\* C5: if the child is still running when the request's wall-clock timeout
\* expires, Sandbox::execute returns Error::Timeout, never Ok and never another
\* error kind, for every command, stdin payload and timeout value.
C5_ExpiredReturnsTimeout ==
    [][\A r \in Requests :
          Expired(r) /\ pc'[r] = "done"
              => result'[r].tag = "Err" /\ result'[r].kind = "Timeout"]_vars

\* The steps of the timeout branch in the order the spec gives them.
TimeoutBranch == <<"timeout", "kill_term", "grace_sleep", "kill_9", "reap", "return">>

\* The last n steps of a log (the whole log when it is shorter).
LastSteps(steps, n) ==
    IF Len(steps) <= n THEN steps ELSE SubSeq(steps, Len(steps) - n + 1, Len(steps))

\* C6: on the timeout branch the steps are, in this order, timeout fires, TERM,
\* grace sleep, KILL, reap, return Timeout; when execute has returned Timeout the
\* child is neither still running nor an unreaped zombie.
C6_TimeoutBranchReaps ==
    \A r \in Requests :
        pc[r] = "done" /\ result[r] = Err("Timeout", "timeout branch") =>
            /\ LastSteps(SelectSeq(log[r], LAMBDA s : s # "cleanup_failed"),
                         Len(TimeoutBranch)) = TimeoutBranch
            /\ child[r].state \notin {"running", "zombie"}

\* C7: every Success result was produced by a run in which the child exited with
\* code 0 and the post-mortem check did not report a cap as exceeded; no path
\* assembles Success after a timeout, a non-zero exit, a signal kill or a
\* ResourceExceeded outcome.
C7_SuccessOnlyFromCleanExit ==
    [][\A r \in Requests :
          result'[r] = Ok("Success") /\ result[r] # Ok("Success") =>
              /\ pc[r] = "check_resource_usage"
              /\ child[r].state = "reaped" /\ child[r].exit = "code0"
              /\ check_resource_usage(elapsed[r], rusage_children).tag = "Ok"
              /\ "timeout" \notin Range(log[r])]_vars

\* C7 happens: a request has returned a Success result.
C7_SuccessReturned ==
    \E r \in Requests : pc[r] = "done" /\ result[r] = Ok("Success")

\* C8: a request whose child exits with code 0 before the wall-clock timeout, with
\* its own peak resident memory at most the memory cap and its own CPU seconds at
\* most the cpu_time cap (here: not even more wall-clock seconds than the cap have
\* passed), returns Success.
C8_CleanExitIsSuccess ==
    [][\A r \in Requests :
          /\ pc[r] = "check_resource_usage" /\ pc'[r] = "done"
          /\ child[r].exit = "code0"
          /\ child[r].rss * 1024 <= limits.memory
          /\ elapsed[r] <= limits.cpu_time
          => result'[r] = Ok("Success")]_vars

\* The stages whose failures the table calls install/scaffold failures.
ScaffoldStages == {"ensure_directories", "setup_environment", "install_dependencies"}

\* The rows of the failure-mapping table that apply to an error result.
FailureRows(res) ==
    (IF res.kind = "CompilationError" THEN {"compilation_error"} ELSE {})
    \cup (IF res.kind \in {"System", "Io"} /\ res.msg \in ScaffoldStages
          THEN {"system_error"} ELSE {})
    \cup (IF res = Err("Timeout", "timeout branch") THEN {"timeout"} ELSE {})
    \cup (IF res.kind = "ResourceExceeded" \/ res = Err("Sandbox", "Process exited with status")
          THEN {"error"} ELSE {})

\* C9: the status surfaced for a failed request follows the failure-mapping table:
\* compile failure -> compilation_error, install/scaffold filesystem or IO failure
\* -> system_error, timeout branch -> timeout, cap exceeded or a non-signal
\* non-zero exit -> error.
C9_FailureMapping ==
    \A r \in Requests :
        pc[r] = "done" /\ result[r].tag = "Err" =>
            \A status \in FailureRows(result[r]) : ResponseStatus(result[r]) = status

\* The pipeline steps in the order of the spec; "execute" is the run step.
PipelineOrder ==
    <<"check_tools", "ensure_directories", "setup_environment",
      "install_dependencies", "compile", "execute">>

\* The pipeline steps a request with or without dependencies goes through.
StepsFor(request) ==
    SelectSeq(PipelineOrder,
              LAMBDA s : s = "install_dependencies" => request.dependencies > 0)

\* The pipeline steps the task has taken, in the order it took them.
StepsTaken(r) == SelectSeq(log[r], LAMBDA s : s \in Range(PipelineOrder))

\* C10: within one request the steps run in the order tool check,
\* ensure-directories, scaffold, install-dependencies, compile, run, each after
\* the previous one returned Ok; when a step returns an error no later step runs,
\* the child is never spawned and that error is the request's result.
C10_PipelineOrder ==
    \A r \in Requests :
        /\ IsPrefix(StepsTaken(r), StepsFor(req[r]))
        /\ pc[r] = "done" /\ result[r].tag = "Err" /\ result[r].msg \in Range(PipelineOrder) =>
              /\ StepsTaken(r) # <<>>
              /\ StepsTaken(r)[Len(StepsTaken(r))] = result[r].msg
              /\ "spawn" \notin Range(log[r])
              /\ child[r] = NoChild

\* C10 happens: a request with dependencies went through every step up to compile,
\* compile returned an error, and that error is its result.
C10_CompileFailed ==
    \E r \in Requests :
        /\ pc[r] = "done"
        /\ result[r] = Err("CompilationError", "compile")
        /\ StepsTaken(r) = SubSeq(PipelineOrder, 1, 5)

\* A child process of the request exists or existed: it was spawned.
Spawned(r) == child[r].state \in {"running", "zombie", "reaped"}

\* C11: the environment the child starts with is exactly the caller's env_vars
\* plus PATH and HOME, nothing inherited from the host; PATH is always
\* /usr/bin:/bin:/usr/sbin:/sbin and HOME is always <sandbox root>/home, also when
\* env_vars itself names PATH or HOME.
C11_ChildEnvironment ==
    \A r \in Requests :
        Spawned(r) =>
            /\ child[r].env["PATH"] = "/usr/bin:/bin:/usr/sbin:/sbin"
            /\ child[r].env["HOME"] = <<sandbox[r], "home">>
            /\ \A k \in EnvNames \ {"PATH", "HOME"} : child[r].env[k] = req[r].env_vars[k]

\* C11 happens: a child runs for a request whose env_vars name PATH, HOME and a
\* variable of the caller's own.
C11_CallerSetsPathAndHome ==
    \E r \in Requests :
        /\ child[r].state = "running"
        /\ \A k \in {"PATH", "HOME", "FOO"} : req[r].env_vars[k] = "caller"

\* The caps the claim names: CPU seconds, file size, address space, process count.
RequiredLimits == {"RLIMIT_CPU", "RLIMIT_FSIZE", "RLIMIT_AS", "RLIMIT_NPROC"}

\* C16: on Linux the child starts executing the command only after the caps for
\* CPU seconds, file size, address space and process count were installed between
\* fork and exec; if installing one fails the command never runs and execute
\* returns a Sandbox error.
C16_CapsInstalledBeforeExec ==
    \A r \in Requests :
        /\ Spawned(r) => RequiredLimits \subseteq child[r].rlimits
        /\ pc[r] = "done" /\ result[r].msg = "Failed to spawn process" =>
              result[r].kind = "Sandbox" /\ ~Spawned(r)

\* The reason the claim gives for an unknown tag.
UnsupportedLanguage(tag) == <<"unsupported language", tag>>

\* C18: a request whose language tag is not in the supported vocabulary yields
\* status error with the reason "unsupported language: <tag>" naming the tag, and
\* for it no permit is acquired, no sandbox is created, no process is spawned.
C18_UnknownTagRejected ==
    \A r \in Requests :
        pc[r] = "done" /\ from_str(req[r].tag) = ParseError =>
            /\ ResponseStatus(result[r]) = "error"
            /\ ResponseStderr(result[r], req[r]) = UnsupportedLanguage(req[r].tag)
            /\ log[r] = <<>> /\ sandbox[r] = 0 /\ child[r] = NoChild
            /\ permits + Cardinality(Holders) = max_concurrent

\* The all-lowercase spellings of the supported tags.
BaselineTags == {TagOf(language) : language \in Languages}

\* C19: language-tag parsing is case-insensitive: every upper/lower-case variant
\* of a baseline tag parses to the same Language as its all-lowercase form.
C19_CaseInsensitiveTags ==
    \A r \in Requests :
        pc[r] \notin {"off", "idle"} /\ to_lowercase(req[r].tag) \in BaselineTags =>
            req[r].language = from_str(to_lowercase(req[r].tag))

\* C20: when the request's dependencies list is empty the install stage is a
\* no-op: between scaffold and compile no install process is spawned and no
\* manifest is written (the executor's install_dependencies is not called).
C20_EmptyInstallIsNoOp ==
    [][\A r \in Requests :
          pc[r] = "install_dependencies" /\ pc'[r] # pc[r] /\ req[r].dependencies = 0 =>
              /\ pc'[r] = "compile"
              /\ log'[r] = log[r]
              /\ rusage_children' = rusage_children
              /\ child'[r] = NoChild]_vars

\* C20 happens: a request without dependencies went from scaffold to compile.
C20_NoDependenciesAtCompile ==
    \E r \in Requests :
        /\ pc[r] = "compile" /\ req[r].dependencies = 0
        /\ "setup_environment" \in Range(log[r])

\* C17: on a Linux host, when the peak resident set of the child, in bytes,
\* exceeds limits.memory, Sandbox::execute returns Error::ResourceExceeded and
\* never Ok, whatever the exit code of the child.
C17_MemoryExceeded ==
    [][\A r \in Requests :
          /\ pc[r] = "check_resource_usage" /\ pc'[r] # pc[r]
          /\ child[r].rss * 1024 > limits.memory
          => /\ result'[r].tag = "Err"
             /\ result'[r].kind = "ResourceExceeded"]_vars

\* C17 happens: execute returned the memory error though the toolchain commands
\* stayed under the cap, so the child's own peak was over it.
C17_ChildOverMemory ==
    \E r \in Requests :
        /\ pc[r] = "done"
        /\ result[r] = Err("ResourceExceeded", "Memory limit exceeded")
        /\ toolchain_rss * 1024 <= limits.memory

\* C12: when the caller cancels (drops) an in-flight execute call at a suspension
\* point (semaphore acquire, filesystem write, child spawn/wait, stdin write,
\* timeout sleep), the in-flight stage is aborted, the sandbox root of the request
\* is deleted, and its semaphore permit is released.
C12_CancelTearsDown ==
    \A r \in Requests :
        pc[r] = "cancelled" =>
            /\ child[r].state # "running"
            /\ sandbox[r] # 0 => sandbox[r] \notin roots
            /\ roots \subseteq {ExecutorRoot} \cup {sandbox[q] : q \in Requests}
            /\ r \notin Range(waiters)
            /\ permits + Cardinality(Holders) = max_concurrent

\* The position of a waiting task in the semaphore queue (arrival order).
Arrival(r) == CHOOSE i \in 1..Len(waiters) : waiters[i] = r

\* C13: requests that find no free permit wait on the semaphore and are admitted
\* in arrival order: a request that started waiting earlier is never admitted
\* after one that started waiting later; and, when every in-flight request
\* eventually returns, every waiting request is eventually admitted (or leaves
\* the queue because its caller dropped it).
C13_AdmittedInArrivalOrder ==
    /\ [][\A r1, r2 \in Requests :
             /\ pc[r1] = "acquire" /\ pc[r2] = "acquire"
             /\ Arrival(r1) < Arrival(r2)
             => ~(pc'[r2] = "Sandbox_new" /\ pc'[r1] = "acquire")]_vars
    /\ \A r \in Requests :
          pc[r] = "acquire" ~> pc[r] \in {"Sandbox_new", "cancelled"}

\* C13 happens: with no permit free, a request waits in the queue behind the
\* admitted one that arrived before it.
C13_WaitsBehindEarlier ==
    \E r1, r2 \in Requests :
        /\ r1 # r2 /\ InFlight(r1) /\ permits = 0
        /\ pc[r2] = "acquire" /\ waiters = <<r2>>

Live(r) == sandbox[r] # 0 /\ pc[r] \notin {"done", "cancelled"}

C30_NonZeroExitIsSandboxError ==
    [][\A r \in Requests :
          /\ pc[r] = "check_resource_usage" /\ pc'[r] = "done"
          /\ child[r].exit = "code1"
          /\ child[r].rss * 1024 <= limits.memory
          /\ elapsed[r] <= limits.cpu_time
          => result'[r] = Err("Sandbox", "Process exited with status")]_vars

\* C22: the child's stdin is a pipe when and only when the request provides
\* input (otherwise the null device); when input is provided the whole payload
\* is written and the pipe is closed before the wait for the child starts, so
\* a child that reads to EOF gets exactly the payload.
C22_StdinPipedIffInput ==
    \A r \in Requests :
        /\ Spawned(r) /\ pc[r] # "done" =>
              (child[r].stdin = "null" <=> req[r].input = NoInput)
        /\ pc[r] = "wait" /\ req[r].input # NoInput =>
              /\ child[r].stdin = "closed"
              /\ child[r].written = req[r].input
              /\ LastSteps(log[r], 2) = <<"write_input", "close_stdin">>
        /\ pc[r] = "wait" /\ req[r].input = NoInput => "write_input" \notin Range(log[r])

\* C22 happens: the wait has started for a child whose input was longer than
\* the pipe holds.
C22_WaitingAfterInput ==
    \E r \in Requests :
        pc[r] = "wait" /\ child[r].state = "running" /\ req[r].input > PipeCapacity

\* C21: for every language tag, running ensure_directories then
\* setup_environment a second time in the same sandbox succeeds and leaves the
\* same project files as after the first run.
C21_ScaffoldIdempotent ==
    project.runs = 2 =>
        /\ project.status = "Ok"
        /\ project.files = Scaffold(project.language, SandboxFiles).files

\* C23: analyze_source_code consults the detectors in the order python,
\* javascript, typescript, rust, go; the first whose can_handle accepts the
\* text decides the language and its analysis is the result; when none
\* accepts, the call fails with a Validation error and yields no packages.
C23_DetectorOrder == <<"python", "javascript", "typescript", "rust", "go">>

C23_FirstDetectorWins ==
    analysis.call = "analyze_source_code" =>
        IF \E i \in 1..5 : can_handle(C23_DetectorOrder[i], source)
        THEN /\ analysis.status = "Ok"
             /\ \E i \in 1..5 :
                   /\ analysis.tag = C23_DetectorOrder[i]
                   /\ can_handle(C23_DetectorOrder[i], source)
                   /\ \A j \in 1..(i - 1) : ~can_handle(C23_DetectorOrder[j], source)
             /\ analysis.packages = analyze_dependencies_of(analysis.tag, source)
        ELSE /\ analysis.status = "Validation"
             /\ analysis.packages = {}

\* A text that three detectors accept, given to python, the first of them.
C23_PythonBeforeRust ==
    /\ analysis.call = "analyze_source_code"
    /\ analysis.tag = "python"
    /\ JavaScript_can_handle(source)
    /\ Rust_can_handle(source)
    /\ analysis.packages # {}

\* C24: for every analyzer and every package it returns, the version is the
\* one an explicit version comment of the text states for the package, else
\* the analyzer's default-table version, else its fallback; the comment counts
\* wherever it stands in the text, before or after the import.
C24_CommentForm ==
    [python |-> "pip", javascript |-> "npm", typescript |-> "npm",
     rust |-> "cargo_version", go |-> "go_require"]

C24_Defaults ==
    [python |-> PythonDefaultVersions, javascript |-> JavaScriptDefaultVersions,
     typescript |-> TypeScriptDefaultVersions, rust |-> RustDefaultVersions,
     go |-> GoDefaultVersions]

C24_Fallback ==
    [python |-> ">=1.0.0", javascript |-> "^1.0.0", typescript |-> "^1.0.0",
     rust |-> "0.1", go |-> "1.0.0"]

C24_VersionPrecedence ==
    analysis.call = "analyze_dependencies" =>
        \A p \in analysis.packages :
            LET stated == {i \in 1..Len(source) :
                              /\ source[i].form = C24_CommentForm[analysis.tag]
                              /\ source[i].path = p.name}
            IN  IF stated # {}
                THEN \E i \in stated :
                        p.version = IF analysis.tag = "go" THEN "v" \o source[i].version
                                    ELSE source[i].version
                ELSE IF p.name \in DOMAIN C24_Defaults[analysis.tag]
                THEN p.version = C24_Defaults[analysis.tag][p.name]
                ELSE p.version = C24_Fallback[analysis.tag]

\* C25: the Rust analyzer strips `use std::...` and `use core::...`: it
\* returns no package named std or core, and still returns every third-party
\* crate the text uses.
C25_StdAndCoreStripped ==
    (analysis.status = "Ok" /\ analysis.tag = "rust") =>
        /\ \A p \in analysis.packages : p.name \notin {<<"std">>, <<"core">>}
        /\ \A i \in 1..Len(source) :
              (source[i].form \in {"use", "extern"} /\ source[i].path \notin {<<"std">>, <<"core">>})
                  => \E p \in analysis.packages :
                        p.name = <<get_canonical_crate_name(Head(source[i].path))>>

\* C26: for the Python source of the analyzer test (imports of json, boto3,
\* pandas, PIL, numpy and io) the result is exactly the four packages boto3,
\* numpy, pandas and pillow, with no standard-library module among them.
C26_FourPackages ==
    (source = PythonTestSource /\ analysis.status = "Ok" /\ analysis.tag = "python") =>
        {p.name : p \in analysis.packages}
            = {<<"boto3">>, <<"numpy">>, <<"pandas">>, <<"pillow">>}

\* C27: the Go analyzer returns exactly one package per distinct normalized
\* base path: an import without a dot is left out as standard library, a
\* github.com/o/r/... path counts as its first three segments, a
\* host.tld/segment/... path as its first two, and imports of several
\* sub-paths of one base package give a single package.
C27_Imports ==
    {source[i].path : i \in {j \in 1..Len(source) :
        \/ source[j].form = "go_import"
        \/ /\ source[j].form = "block_item"
           /\ \E o \in 1..(j - 1) :
                 /\ source[o].form = "block_open"
                 /\ \A c \in (o + 1)..(j - 1) : source[c].form # "block_close"}}

C27_BasePaths ==
    {IF Head(path) = "github.com" /\ Len(path) >= 3 THEN SubSeq(path, 1, 3)
     ELSE IF Len(path) >= 2 THEN SubSeq(path, 1, 2) ELSE path :
        path \in {q \in C27_Imports : \E k \in 1..Len(q) : q[k] \in DottedSegments}}

C27_OnePackagePerBasePath ==
    (analysis.status = "Ok" /\ analysis.tag = "go") =>
        /\ {p.name : p \in analysis.packages} = C27_BasePaths
        /\ Cardinality(analysis.packages) = Cardinality(C27_BasePaths)

\* Two imports below github.com/gin-gonic/gin and a standard-library import,
\* answered with the one package.
C27_SubPathsCollapse ==
    /\ analysis.status = "Ok" /\ analysis.tag = "go"
    /\ <<"github.com", "gin-gonic", "gin">> \in C27_Imports
    /\ <<"github.com", "gin-gonic", "gin", "binding">> \in C27_Imports
    /\ <<"fmt">> \in C27_Imports
    /\ Cardinality(analysis.packages) = 1

\* C28: the Go detector accepts a text when it has a package declaration and,
\* only if an import exists, the import has valid syntax (every Go import line
\* of the enumerated texts has); so a text with a package declaration and no
\* import is accepted, and a text with Python markers (a top-level def,
\* `import os`, a python shebang) is rejected.
C28_PythonMarkers ==
    \E i \in 1..Len(source) :
        \/ source[i].form \in {"def", "shebang"}
        \/ source[i].form = "import" /\ Head(source[i].path) = "os"

C28_GoDetector ==
    (/\ analysis.call = "analyze_source_code"
     /\ \A language \in {"python", "javascript", "typescript", "rust"} :
           ~can_handle(language, source))
        => (analysis.tag = "go"
                <=> /\ \E i \in 1..Len(source) : source[i].form = "package"
                    /\ ~C28_PythonMarkers)

\* C29: when InstallationManager::install_dependencies returns Ok, the
\* progress record reports Complete; and whenever it reports Complete, some
\* call has returned Ok, which a call does only after the package-list
\* update, the install of every required package that was missing,
\* validation and environment setup all succeeded in it.
C29_OkMeansComplete ==
    /\ [][workload = "manager" =>
            \A c \in Calls :
                (progress.call[c].result # "Ok" /\ progress'.call[c].result = "Ok")
                    => progress'.status = "Complete"]_vars
    /\ [](progress.status = "Complete" =>
            \E c \in Calls :
                /\ progress.call[c].result = "Ok"
                /\ progress.call[c].package = progress.required_packages + 1)

\* A call with two required packages has returned Ok beside a call that failed.
C29_OneCallOkOneFailed ==
    /\ workload = "manager"
    /\ progress.required_packages = MaxPackages
    /\ progress.status = "Complete"
    /\ \E c, d \in Calls :
          /\ progress.call[c].result = "Ok"
          /\ progress.call[d].result \notin {"-", "Ok"}

\* C36: for every analyzer and every source text, the returned packages hold
\* at most one Package per package name: a module imported several times, also
\* with an explicit-version comment between two of its imports, gives a single
\* entry with a single version.
C36_OnePackagePerName ==
    analysis.status = "Ok" =>
        \A p, q \in analysis.packages : p.name = q.name => p = q

\* C37: in every reachable state of an InstallationManager, during and after
\* any install_dependencies call, for any number of required packages and any
\* subset of them already installed, current_step_index <= total_steps.
C37_StepIndexWithinTotal ==
    workload = "manager" => progress.current_step_index <= progress.total_steps

\* C35: when Sandbox::new fails after it has created the root directory (one
\* of bin, lib, usr, tmp, home could not be created), the root directory is
\* removed again: a failed Sandbox::new leaves no sandbox-<uuid> directory.
C35_FailedNewLeavesNoRoot ==
    [][\A r \in Requests :
          (pc[r] = "Sandbox_new" /\ pc'[r] = "done") => roots' \subseteq roots]_vars

\* C33: Sandbox::execute returns Error::Timeout only if the request's
\* wall-clock timeout expired while the child was running: a child that
\* terminates before the timeout, also one killed by SIGKILL or SIGTERM from
\* another source, is never classified as Timeout.
C33_TimeoutOnlyAfterExpiry ==
    \A r \in Requests :
        (result[r].tag = "Err" /\ result[r].kind = "Timeout")
            => "timeout" \in Range(log[r]) \/ waited[r] >= req[r].timeout

\* C34: every call of Sandbox::execute returns once the request's timeout has
\* elapsed, whatever the child does; with a stdin payload that the child never
\* reads, the call is not left pending in the stdin write that precedes the
\* timed wait.
C34_NotPendingPastTimeout ==
    \A r \in Requests :
        pc[r] = "write_input" => elapsed[r] <= req[r].timeout

\* C31: for every language, once stages 1-4 have succeeded the file or binary
\* the stage-5 run command names exists at that path relative to the sandbox
\* root; for javascript the caller's source is at source.js in the root.
C31_RunPathExists ==
    project.status \in {"Built", "Running"} => RunPath(project.language) \in project.files

\* C32: for python the run stage executes the interpreter of the sandbox's
\* virtual environment, the environment into which the install stage put the
\* request's dependencies, so that they are importable at stage 5.
C32_RunsVenvInterpreter ==
    (project.status = "Running" /\ project.language = "python"
        /\ "venv/lib/site-packages" \in project.files)
        => project.program = "venv/bin/python3"

====
